---- MODULE Spec2Model ----
(***************************************************************************)
(* Browser-side audit tracker of src/index.js: the page-wide singleton     *)
(* (globalAuditInstance), the patched history primitives, the window       *)
(* listener bus, the per-instance closure (currentRoute, routeStartTime,   *)
(* sessionId, eventListeners, originalHistoryMethods), the local audit     *)
(* list in localStorage and the asynchronous track() calls with their      *)
(* deliveries to the primary and the secondary sink.                       *)
(***************************************************************************)
EXTENDS Integers, Sequences, FiniteSets, TLC

VARIABLES
    isBrowser,            \* index.js:2   window and document exist
    nodeEnv,              \* process.env.NODE_ENV as read at index.js:216, 251
    storageWorks,         \* localStorage.setItem succeeds (index.js:40)
    userInfo,             \* index.js:50-62  "ok", or the error reading navigator,
                          \* Intl or screen throws
    now,                  \* Date.now(), milliseconds
    location,             \* window.location.pathname
    history,              \* [pushState, replaceState]: the installed functions
    windowListeners,      \* listeners registered on window, in registration order
    globalAuditInstance,  \* index.js:6   0 is null, otherwise an instance handle
    instances,            \* closures of createAuditClient, by handle
    uuidCalls,            \* number of generateSessionId() calls so far
    timers,               \* pending setTimeout(..., 0) callbacks, by instance
    localData,            \* localStorage["triostack-audit-data"], parsed
    tasks,                \* track() invocations: activity, promise state, POSTs
    errors,               \* the onError invocations made so far
    lastCall,             \* the operation the last step performed, and its result
    noopTracker,          \* index.js:78-83  a no-op object has been handed to the page
    server,               \* the audit server engine, its requests, events and errors
    bound                 \* limits of the exploration, fixed by the initial state

vars == <<isBrowser, nodeEnv, storageWorks, userInfo, now, location, history,
          windowListeners, globalAuditInstance, instances, uuidCalls, timers,
          localData, tasks, errors, lastCall, noopTracker, server, bound>>

\* index.js:50-62  what a call of getUserInfo() does: it returns, or it throws
\* a ReferenceError (a global such as screen or navigator is not declared) or
\* a TypeError (the global exists but is undefined, or a getter fails).
UserInfoModes == {"ok", "ReferenceError", "TypeError"}
userInfoWorks == userInfo = "ok"

(***************************************************************************)
(* Bounds of the model.                                                    *)
(***************************************************************************)
MaxInst == 3      \* closures built in the lifecycle specification
MaxTasks == 1     \* track() invocations in the lifecycle specification
NavTasks == 2     \* track() invocations in the navigation specification
SessionTasks == 3 \* track() invocations in the session specification
DeliveryTasks == 2 \* track() invocations in the delivery specification
ConfigTasks == 3    \* track() invocations in the options specification
EnvTasks == 2       \* track() invocations in the environment specification
TimeoutTasks == 2  \* track() invocations in the termination specification
GeoTasks == 3      \* track() invocations in the geo specification

Routes == {"/a", "/b"}
Instants == {0, 500, 1000}   \* values Date.now() takes, in milliseconds

(***************************************************************************)
(* Program constants.                                                      *)
(***************************************************************************)
KeepLast == 100        \* index.js:37  entries kept in the local audit list
MsPerSecond == 1000    \* index.js:108 divisor of the duration

NoInstance == 0
NoopTracker == -1     \* the handle of the no-op object of index.js:78-83
Native == <<>>

\* index.js:308-313  the function object patchHistoryMethod installs: a wrapper
\* around `original`, made while instance `creator` was being constructed.
Wrapper(original, creator) == Append(original, creator)

\* index.js:9-19  a fresh identifier per call (collisions are not modelled).
generateSessionId(calls) == calls + 1

\* index.js:108  Math.round(x / 1000): nearest integer, ties towards +infinity.
MathRound(num, den) == (2 * num + den) \div (2 * den)

\* Mutant of getUserInfo: the geo fields fall back to the lower-case sentinel.
getUserInfoUnknown ==
    [ip |-> "unknown", city |-> "unknown", region |-> "unknown",
     country |-> "unknown", latitude |-> "null", longitude |-> "null",
     userAgent |-> "ua"]

\* index.js:49-63
getUserInfo ==
    [ip |-> "local", city |-> "Unknown", region |-> "Unknown",
     country |-> "Unknown", latitude |-> "null", longitude |-> "null",
     userAgent |-> "ua"]

\* Mutant of Activity: the session identifier is generated per event instead
\* of being the one generated at creation.
ActivityNewSession(c, route, duration, t) ==
    [userId |-> c.cfg.userId, route |-> route, duration |-> duration,
     timestamp |-> t, sessionId |-> generateSessionId(uuidCalls)] @@ getUserInfo

\* index.js:145-152  the activity record track builds
Activity(c, route, duration, t) ==
    [userId |-> c.cfg.userId, route |-> route, duration |-> duration,
     timestamp |-> t, sessionId |-> c.sessionId] @@ getUserInfo

\* Mutant of saveLocalAuditData: a full list keeps its first entries and
\* drops the new one.
saveLocalAuditDataKeepsFirst(existing, data, ok) ==
    LET updated == Append(existing, data)
        kept == IF Len(updated) > KeepLast
                THEN SubSeq(updated, 1, KeepLast)
                ELSE updated
    IN IF ok THEN kept ELSE existing

\* index.js:32-46  the list stored after saving `data`; unchanged when the
\* write fails (the catch returns false).
saveLocalAuditData(existing, data, ok) ==
    LET updated == Append(existing, data)
        kept == IF Len(updated) > KeepLast
                THEN SubSeq(updated, Len(updated) - KeepLast + 1, Len(updated))
                ELSE updated
    IN IF ok THEN kept ELSE existing

\* The part of the state a track() call or a listener run rewrites.
World == [instances |-> instances, localData |-> localData,
          tasks |-> tasks, errors |-> errors,
          threw |-> FALSE, result |-> "none"]

\* Mutant of primaryWanted: the primary sink is used whenever baseUrl is
\* given, whatever enableServerSync says.
primaryWantedIgnoresSync(cfg) == cfg.baseUrl # ""

\* index.js:167, 175  what a configured onError that throws (onErrorThrows)
\* throws: an error of its own, not the error it was handed.
OnErrorError == "RangeError"

\* index.js:163, 171  which sinks track() will POST to
primaryWanted(cfg) == cfg.enableServerSync /\ cfg.baseUrl # ""
secondaryWanted(cfg) == cfg.clientDbUrl # "" /\ cfg.enableServerSync

\* index.js:188-197, 227-235  the request fetch() sends to `sink`: the URL
\* (baseUrl + "/audit-log" kept as its two parts, or clientDbUrl) and the
\* object handed to JSON.stringify as the body.
Request(cfg, sink, activity) ==
    [sink |-> sink,
     url |-> IF sink = "primary" THEN <<cfg.baseUrl, "/audit-log">>
             ELSE <<cfg.clientDbUrl>>,
     body |-> activity]

\* index.js:143  getUserInfo() throws (navigator, Intl or screen is missing):
\* the async function rejects, with that error, before anything is built,
\* saved or sent. The rejection handler attached at index.js:109, 139 runs
\* later, as a microtask (see rejectionReports).
trackThrows(w, i, kind, route, duration) ==
    LET task == [inst |-> i, kind |-> kind, built |-> FALSE,
                 activity |-> [route |-> route, duration |-> duration],
                 pc |-> "rejected", result |-> <<>>,
                 primary |-> "none", secondary |-> "none",
                 primaryPosts |-> 0, secondaryPosts |-> 0, requests |-> <<>>,
                 saved |-> <<>>]
    IN [w EXCEPT !.tasks = Append(w.tasks, task)]

\* index.js:109, 139  track(...).catch(onError): what the rejection handlers
\* of the automatic track() calls that threw report to onError. A manual
\* call's rejection goes to its caller instead.
rejectionReports(w) ==
    {[inst |-> w.tasks[k].inst, task |-> k, sink |-> "rejection", err |-> userInfo] :
        k \in {j \in 1 .. Len(w.tasks) :
                  ~w.tasks[j].built /\ w.tasks[j].pc = "rejected"
                                    /\ w.tasks[j].kind # "manual"}}

\* The rejection handlers that have not run yet: they are microtasks, run
\* when the script or callback that called track() has returned.
pendingRejections(w) == rejectionReports(w) \ w.errors

\* The microtask checkpoint: every pending rejection handler calls onError.
runMicrotasks(w) == [w EXCEPT !.errors = @ \cup rejectionReports(w)]

\* Mutant of trackBuilds: the event is saved locally only when no request
\* is to be made for it first.
trackBuildsSendsFirst(w, i, kind, route, duration) ==
    LET c == w.instances[i]
        activity == Activity(c, route, duration, now)
        first == IF c.cfg.baseUrl # "" THEN "primary"
                 ELSE IF c.cfg.clientDbUrl # "" THEN "secondary"
                 ELSE "resolved"
        stored == IF c.cfg.enableLocalStorage /\ first = "resolved"
                  THEN saveLocalAuditData(w.localData, activity, storageWorks)
                  ELSE w.localData
        task == [inst |-> i, kind |-> kind, built |-> TRUE, activity |-> activity,
                 pc |-> first,
                 result |-> IF first = "resolved" THEN <<activity>> ELSE <<>>,
                 primary |-> IF first = "primary" THEN "pending" ELSE "none",
                 secondary |-> IF first = "secondary" THEN "pending" ELSE "none",
                 primaryPosts |-> IF first = "primary" THEN 1 ELSE 0,
                 secondaryPosts |-> IF first = "secondary" THEN 1 ELSE 0,
                 requests |-> IF first = "resolved" THEN <<>>
                              ELSE <<Request(c.cfg, first, activity)>>,
                 saved |-> IF c.cfg.enableLocalStorage THEN <<storageWorks>>
                           ELSE <<>>]
    IN [w EXCEPT !.localData = stored, !.tasks = Append(w.tasks, task)]

\* Mutant of trackBuilds: with both sinks wanted, the two POSTs are issued
\* together.
trackBuildsBothSinks(w, i, kind, route, duration) ==
    LET c == w.instances[i]
        activity == Activity(c, route, duration, now)
        stored == IF c.cfg.enableLocalStorage
                  THEN saveLocalAuditData(w.localData, activity, storageWorks)
                  ELSE w.localData
        first == IF primaryWanted(c.cfg) THEN "primary"
                 ELSE IF secondaryWanted(c.cfg) THEN "secondary"
                 ELSE "resolved"
        both == primaryWanted(c.cfg) /\ secondaryWanted(c.cfg)
        task == [inst |-> i, kind |-> kind, built |-> TRUE, activity |-> activity,
                 pc |-> first,
                 result |-> IF first = "resolved" THEN <<activity>> ELSE <<>>,
                 primary |-> IF first = "primary" THEN "pending" ELSE "none",
                 secondary |-> IF first = "secondary" \/ both THEN "pending"
                               ELSE "none",
                 primaryPosts |-> IF first = "primary" THEN 1 ELSE 0,
                 secondaryPosts |-> IF first = "secondary" \/ both THEN 1 ELSE 0,
                 requests |-> IF first = "resolved" THEN <<>>
                              ELSE IF both
                              THEN <<Request(c.cfg, "primary", activity),
                                     Request(c.cfg, "secondary", activity)>>
                              ELSE <<Request(c.cfg, first, activity)>>,
                 saved |-> IF c.cfg.enableLocalStorage THEN <<storageWorks>>
                           ELSE <<>>]
    IN [w EXCEPT !.localData = stored, !.tasks = Append(w.tasks, task)]

\* index.js:145-165  track() from the activity literal up to its first
\* await: the activity is built, saved locally when enabled, and the first
\* POST is issued; the returned promise stays pending while a POST is in
\* flight.
trackBuilds(w, i, kind, route, duration) ==
    LET c == w.instances[i]
        activity == Activity(c, route, duration, now)
        stored == IF c.cfg.enableLocalStorage
                  THEN saveLocalAuditData(w.localData, activity, storageWorks)
                  ELSE w.localData
        first == IF primaryWanted(c.cfg) THEN "primary"
                 ELSE IF secondaryWanted(c.cfg) THEN "secondary"
                 ELSE "resolved"
        task == [inst |-> i, kind |-> kind, built |-> TRUE, activity |-> activity,
                 pc |-> first,
                 result |-> IF first = "resolved" THEN <<activity>> ELSE <<>>,
                 primary |-> IF first = "primary" THEN "pending" ELSE "none",
                 secondary |-> IF first = "secondary" THEN "pending" ELSE "none",
                 primaryPosts |-> IF first = "primary" THEN 1 ELSE 0,
                 secondaryPosts |-> IF first = "secondary" THEN 1 ELSE 0,
                 requests |-> IF first = "resolved" THEN <<>>
                              ELSE <<Request(c.cfg, first, activity)>>,
                 \* index.js:156  what saveLocalAuditData returned, if called
                 saved |-> IF c.cfg.enableLocalStorage THEN <<storageWorks>>
                           ELSE <<>>]
    IN [w EXCEPT !.localData = stored, !.tasks = Append(w.tasks, task)]

\* Mutant of track: the event is saved locally before the user information
\* is read, so a failing getUserInfo() leaves a partial event in the list.
trackSavesFirst(w, i, kind, route, duration) ==
    LET c == w.instances[i]
        partial == [userId |-> c.cfg.userId, route |-> route,
                    duration |-> duration, timestamp |-> now,
                    sessionId |-> c.sessionId]
        w1 == trackThrows(w, i, kind, route, duration)
    IN IF userInfoWorks THEN trackBuilds(w, i, kind, route, duration)
       ELSE [w1 EXCEPT !.localData =
                           saveLocalAuditData(w.localData, partial, storageWorks)]

\* Mutant of track: a failed local save is thrown to the caller and nothing
\* is sent.
trackThrowsOnFailedSave(w, i, kind, route, duration) ==
    IF userInfoWorks /\ (storageWorks \/ ~w.instances[i].cfg.enableLocalStorage)
        THEN trackBuilds(w, i, kind, route, duration)
        ELSE trackThrows(w, i, kind, route, duration)

\* index.js:142-165  track(): the first statement reads the user information
\* and may throw; otherwise the event is built, saved and sent.
track(w, i, kind, route, duration) ==
    IF userInfoWorks THEN trackBuilds(w, i, kind, route, duration)
    ELSE trackThrows(w, i, kind, route, duration)

\* How a POST ends: a 2xx response, another status, the 10 s abort
\* (index.js:196, 234) or a transport error.
Outcomes == {"ok", "status", "timeout", "network"}

\* index.js:182-223  how sendToAuditAPI completes once its fetch has ended
\* with `outcome`: the catch at 214-222 rethrows in development, fails on
\* reading `process` where no such global exists, and otherwise returns.
sendToAuditAPI(outcome, env) ==
    IF outcome = "ok" THEN [threw |-> FALSE, err |-> "none"]
    ELSE IF env = "development"
         THEN [threw |-> TRUE, err |-> "Failed to send to audit API"]
    ELSE IF env = "noprocess"
         THEN [threw |-> TRUE, err |-> "ReferenceError"]
    ELSE [threw |-> FALSE, err |-> "none"]

\* index.js:225-258  the same for the secondary sink
saveToClientDB(outcome, env) ==
    IF outcome = "ok" THEN [threw |-> FALSE, err |-> "none"]
    ELSE IF env = "development"
         THEN [threw |-> TRUE, err |-> "Failed to save to client DB"]
    ELSE IF env = "noprocess"
         THEN [threw |-> TRUE, err |-> "ReferenceError"]
    ELSE [threw |-> FALSE, err |-> "none"]

\* Mutant of resumeTrack: a failed POST is sent again until it succeeds.
resumeTrackRetries(w, k, outcome) ==
    LET t == w.tasks[k]
        c == w.instances[t.inst]
        sink == t.pc
        posts == IF sink = "primary" THEN "primaryPosts" ELSE "secondaryPosts"
        next == IF sink = "primary" /\ secondaryWanted(c.cfg) THEN "secondary"
                ELSE "resolved"
        again == [t EXCEPT ![posts] = @ + 1,
                           !.requests = Append(@, Request(c.cfg, sink, t.activity))]
        settled == [t EXCEPT ![sink] = "ok",
                             !.pc = next,
                             !.result = IF next = "resolved" THEN <<t.activity>> ELSE <<>>,
                             !.secondary = IF next = "secondary" THEN "pending" ELSE @,
                             !.secondaryPosts = IF next = "secondary" THEN @ + 1 ELSE @,
                             !.requests = IF next = "secondary"
                                          THEN Append(@, Request(c.cfg, next, t.activity))
                                          ELSE @]
    IN [w EXCEPT !.tasks[k] = IF outcome = "ok" THEN settled ELSE again]

\* Mutant of resumeTrack: fetch is called without the abort signal, so a sink
\* that does not answer leaves the await, and the promise of track(), pending
\* for ever.
resumeTrackNoTimeout(w, k, outcome) ==
    LET t == w.tasks[k]
        c == w.instances[t.inst]
        sink == t.pc
        r == IF sink = "primary" THEN sendToAuditAPI(outcome, nodeEnv)
             ELSE saveToClientDB(outcome, nodeEnv)
        report == [inst |-> t.inst, task |-> k, sink |-> sink, err |-> r.err]
        escaped == r.threw /\ c.cfg.onErrorThrows
        next == IF outcome = "timeout" THEN "hung"
                ELSE IF escaped THEN "rejected"
                ELSE IF sink = "primary" /\ secondaryWanted(c.cfg) THEN "secondary"
                ELSE "resolved"
        reported == IF r.threw /\ next # "hung" THEN w.errors \cup {report}
                    ELSE w.errors
        caught == IF next = "rejected" /\ t.kind # "manual"
                  THEN reported \cup {[report EXCEPT !.sink = "rejection", !.err = OnErrorError]}
                  ELSE reported
        settled == [t EXCEPT ![sink] = IF next = "hung" THEN @
                                       ELSE IF outcome = "ok" THEN "ok" ELSE "failed",
                             !.pc = next,
                             !.result = IF next = "resolved" THEN <<t.activity>> ELSE <<>>,
                             !.secondary = IF next = "secondary" THEN "pending" ELSE @,
                             !.secondaryPosts = IF next = "secondary" THEN @ + 1 ELSE @,
                             !.requests = IF next = "secondary"
                                          THEN Append(@, Request(c.cfg, next, t.activity))
                                          ELSE @]
    IN [w EXCEPT !.tasks[k] = settled, !.errors = caught]

\* Mutant of resumeTrack: the awaits are not wrapped in try/catch, so an error
\* thrown by sendToAuditAPI / saveToClientDB rejects the promise of track().
resumeTrackNoCatch(w, k, outcome) ==
    LET t == w.tasks[k]
        c == w.instances[t.inst]
        sink == t.pc
        r == IF sink = "primary" THEN sendToAuditAPI(outcome, nodeEnv)
             ELSE saveToClientDB(outcome, nodeEnv)
        report == [inst |-> t.inst, task |-> k, sink |-> "rejection", err |-> r.err]
        next == IF r.threw THEN "rejected"
                ELSE IF sink = "primary" /\ secondaryWanted(c.cfg) THEN "secondary"
                ELSE "resolved"
        caught == IF r.threw /\ t.kind # "manual"
                  THEN w.errors \cup {report} ELSE w.errors
        settled == [t EXCEPT ![sink] = IF outcome = "ok" THEN "ok" ELSE "failed",
                             !.pc = next,
                             !.result = IF next = "resolved" THEN <<t.activity>> ELSE <<>>,
                             !.secondary = IF next = "secondary" THEN "pending" ELSE @,
                             !.secondaryPosts = IF next = "secondary" THEN @ + 1 ELSE @,
                             !.requests = IF next = "secondary"
                                          THEN Append(@, Request(c.cfg, next, t.activity))
                                          ELSE @]
    IN [w EXCEPT !.tasks[k] = settled, !.errors = caught]

\* index.js:163-179  track() resumes after the await of task k's pending POST
\* (the task keeps whether the attempt succeeded, not how it failed):
\* a thrown error goes to onError (166-168, 174-176); if onError itself throws,
\* the promise rejects with what onError threw, and the .catch(onError) of
\* index.js:109, 139 calls onError once more, with that error; otherwise the
\* secondary POST is issued or the promise resolves to the activity.
resumeTrack(w, k, outcome) ==
    LET t == w.tasks[k]
        c == w.instances[t.inst]
        sink == t.pc
        r == IF sink = "primary" THEN sendToAuditAPI(outcome, nodeEnv)
             ELSE saveToClientDB(outcome, nodeEnv)
        report == [inst |-> t.inst, task |-> k, sink |-> sink, err |-> r.err]
        escaped == r.threw /\ c.cfg.onErrorThrows
        next == IF escaped THEN "rejected"
                ELSE IF sink = "primary" /\ secondaryWanted(c.cfg) THEN "secondary"
                ELSE "resolved"
        reported == IF r.threw THEN w.errors \cup {report} ELSE w.errors
        caught == IF escaped /\ t.kind # "manual"
                  THEN reported \cup {[report EXCEPT !.sink = "rejection", !.err = OnErrorError]}
                  ELSE reported
        settled == [t EXCEPT ![sink] = IF outcome = "ok" THEN "ok" ELSE "failed",
                             !.pc = next,
                             !.result = IF next = "resolved" THEN <<t.activity>> ELSE <<>>,
                             !.secondary = IF next = "secondary" THEN "pending" ELSE @,
                             !.secondaryPosts = IF next = "secondary" THEN @ + 1 ELSE @,
                             !.requests = IF next = "secondary"
                                          THEN Append(@, Request(c.cfg, next, t.activity))
                                          ELSE @]
    IN [w EXCEPT !.tasks[k] = settled, !.errors = caught]

\* Mutant of handleRouteChange: the handler awaits track(), so the current
\* route and the clock are reset only once the delivery has settled.
handleRouteChangeAwaits(w, i, loc) ==
    LET c == w.instances[i]
        duration == MathRound(now - c.routeStartTime, MsPerSecond)
        w1 == track(w, i, "nav", c.currentRoute, duration)
        settled == w1.tasks[Len(w1.tasks)].pc \in {"resolved", "rejected"}
    IN IF settled
       THEN [w1 EXCEPT !.instances[i].currentRoute = loc,
                       !.instances[i].routeStartTime = now]
       ELSE w1

\* Mutant of handleRouteChange: the current route is reset before the event
\* is emitted, so the event carries the route being entered.
handleRouteChangeNewRoute(w, i, loc) ==
    LET c == w.instances[i]
        duration == MathRound(now - c.routeStartTime, MsPerSecond)
        w1 == track(w, i, "nav", loc, duration)
    IN [w1 EXCEPT !.instances[i].currentRoute = loc,
                  !.instances[i].routeStartTime = now]

\* index.js:107-112  loc is window.location.pathname when the listener runs;
\* the two Date.now() reads of one run return the same instant.
handleRouteChange(w, i, loc) ==
    LET c == w.instances[i]
        duration == MathRound(now - c.routeStartTime, MsPerSecond)
        w1 == track(w, i, "nav", c.currentRoute, duration)
    IN [w1 EXCEPT !.instances[i].currentRoute = loc,
                  !.instances[i].routeStartTime = now]

\* window.dispatchEvent: the listeners registered for `event` run in
\* registration order (index.js:115, 124, 125 each call handleRouteChange).
RECURSIVE dispatchEvent(_, _, _, _)
dispatchEvent(w, listeners, event, loc) ==
    IF listeners = <<>> THEN w
    ELSE LET l == Head(listeners)
             w1 == IF l.event = event THEN handleRouteChange(w, l.inst, loc)
                   ELSE w
         IN dispatchEvent(w1, Tail(listeners), event, loc)

\* A URL of another origin: the browser's pushState and replaceState throw
\* a SecurityError for it and leave the location as it is.
CrossOrigin == "http://other/"

\* What the browser's own pushState and replaceState return.
NativeResult == "undefined"

\* The browser's primitive, called with the URL loc.
nativeHistoryMethod(w, loc) ==
    IF loc = CrossOrigin THEN [w EXCEPT !.threw = TRUE]
    ELSE [w EXCEPT !.result = NativeResult]

\* Mutant of callHistoryMethod: each wrapper dispatches its event before it
\* calls the original, while the location is still the old one.
RECURSIVE callHistoryMethodDispatchesFirst(_, _, _, _)
callHistoryMethodDispatchesFirst(w, f, event, loc) ==
    IF f = Native THEN nativeHistoryMethod(w, loc)
    ELSE callHistoryMethodDispatchesFirst(
             dispatchEvent(w, windowListeners, event, location),
             SubSeq(f, 1, Len(f) - 1), event, loc)

\* index.js:308-313  calling an installed history function: the original runs
\* first (the native primitive changes the location); if it throws, the
\* exception leaves the wrapper at once; otherwise the wrapper dispatches its
\* custom event and returns the original's result.
RECURSIVE callHistoryMethod(_, _, _, _)
callHistoryMethod(w, f, event, loc) ==
    IF f = Native THEN nativeHistoryMethod(w, loc)
    ELSE LET r == callHistoryMethod(w, SubSeq(f, 1, Len(f) - 1), event, loc)
         IN  IF r.threw THEN r
             ELSE dispatchEvent(r, windowListeners, event, loc)

\* index.js:302-314
patchHistoryMethod(h, method, creator) ==
    [h EXCEPT ![method] = Wrapper(h[method], creator)]

\* index.js:114-131  the three listeners one instance registers
ListenerEvents == <<"popstate", "pushstate", "replacestate">>
listenersOf(i, events) ==
    [k \in 1 .. Len(events) |-> [inst |-> i, event |-> events[k]]]

\* element.removeEventListener for every entry of eventListeners (index.js:276-278)
removeListeners(listeners, i, events) ==
    SelectSeq(listeners,
              LAMBDA l : ~(l.inst = i /\ \E k \in 1 .. Len(events) : events[k] = l.event))

Call(op, h) == [op |-> op, h |-> h]

\* No audit server engine has been constructed in this process.
NoServer == [engine |-> <<>>, reqs |-> <<>>, events |-> <<>>, errors |-> {}]

\* The call ended with the exception `err` thrown to its caller.
Threw(call, err) == call @@ [threw |-> err]

\* index.js:75-77, 88-90  the call also wrote a warning with console.warn
Warned(call) == call @@ [warned |-> "console.warn"]

Commit(w) ==
    /\ instances' = w.instances
    /\ localData' = w.localData
    /\ tasks' = w.tasks
    /\ errors' = w.errors

(***************************************************************************)
(* Operations.                                                             *)
(***************************************************************************)

\* index.js:78-83  outside a browser the factory hands out an object of four
\* empty functions that shares nothing with the module state.
returnsNoop ==
    /\ lastCall' = Warned(Call("create", NoopTracker))
    /\ noopTracker' = TRUE
    /\ UNCHANGED <<history, windowListeners, globalAuditInstance, instances,
                   uuidCalls, timers>>

\* Mutant of returnsExisting: the second creation patches the history
\* primitives again, around the wrappers that are already installed.
returnsExistingPatchedAgain ==
    /\ lastCall' = Warned(Call("create", globalAuditInstance))
    /\ UNCHANGED noopTracker
    /\ history' = patchHistoryMethod(
                      patchHistoryMethod(history, "pushState", globalAuditInstance),
                      "replaceState", globalAuditInstance)
    /\ UNCHANGED <<windowListeners, globalAuditInstance, instances,
                   uuidCalls, timers>>

\* index.js:87-92  the slot is occupied: its object is returned as it is.
returnsExisting ==
    /\ lastCall' = Warned(Call("create", globalAuditInstance))
    /\ UNCHANGED noopTracker
    /\ UNCHANGED <<history, windowListeners, globalAuditInstance, instances,
                   uuidCalls, timers>>

\* index.js:94-299  a new closure: the state is captured, the listeners are
\* registered, both history primitives are patched, the initial event is
\* deferred and the slot is taken.
construct(cfg) ==
    LET id == Len(instances) + 1
        closure == [cfg |-> cfg,
                    landing |-> location,   \* observer: the path at creation
                    currentRoute |-> location,
                    routeStartTime |-> now,
                    sessionId |-> generateSessionId(uuidCalls),
                    eventListeners |-> ListenerEvents,
                    originalHistoryMethods |-> history]
    IN /\ id <= bound.inst
       /\ instances' = Append(instances, closure)
       /\ uuidCalls' = uuidCalls + 1
       /\ windowListeners' = windowListeners \o listenersOf(id, ListenerEvents)
       /\ history' = patchHistoryMethod(
                         patchHistoryMethod(history, "pushState", id),
                         "replaceState", id)
       /\ timers' = timers \cup {id}
       /\ globalAuditInstance' = id
       /\ lastCall' = Call("create", id)
       /\ UNCHANGED noopTracker

\* Mutant of createAuditClient: options without baseUrl are refused with an
\* error thrown before anything is built (no handle is returned).
createAuditClientRequiresBaseUrl(cfg) ==
    /\ IF ~isBrowser THEN returnsNoop
       ELSE IF cfg.baseUrl = ""
       THEN /\ lastCall' = Call("create", NoInstance)
            /\ UNCHANGED <<noopTracker, history, windowListeners, globalAuditInstance,
                           instances, uuidCalls, timers>>
       ELSE IF globalAuditInstance # NoInstance THEN returnsExisting
       ELSE construct(cfg)
    /\ UNCHANGED <<bound, server, isBrowser, userInfo, nodeEnv, storageWorks, now,
                   location, localData, tasks, errors>>

\* Mutant of createAuditClient: the environment is not checked, so a closure
\* is built and the slot is taken outside a browser as well.
createAuditClientAnywhere(cfg) ==
    /\ IF globalAuditInstance # NoInstance THEN returnsExisting
       ELSE construct(cfg)
    /\ UNCHANGED <<bound, server, isBrowser, userInfo, nodeEnv, storageWorks, now,
                   location, localData, tasks, errors>>

\* Mutant of createAuditClient: when the slot is occupied the warning is
\* handed to the onError callback of the options.
createAuditClientWarnsOnError(cfg) ==
    /\ IF ~isBrowser THEN returnsNoop /\ UNCHANGED errors
       ELSE IF globalAuditInstance # NoInstance
       THEN /\ lastCall' = Call("create", globalAuditInstance)
            /\ errors' = errors \cup {[inst |-> globalAuditInstance, task |-> 0,
                                        sink |-> "create",
                                        err |-> "Client already initialized"]}
            /\ UNCHANGED <<noopTracker, history, windowListeners, globalAuditInstance,
                           instances, uuidCalls, timers>>
       ELSE construct(cfg) /\ UNCHANGED errors
    /\ UNCHANGED <<bound, server, isBrowser, userInfo, nodeEnv, storageWorks, now,
                   location, localData, tasks>>

\* index.js:65-300  createAuditClient
createAuditClient(cfg) ==
    /\ IF ~isBrowser THEN returnsNoop
       ELSE IF globalAuditInstance # NoInstance THEN returnsExisting
       ELSE construct(cfg)
    /\ UNCHANGED <<bound, server, isBrowser, userInfo, nodeEnv, storageWorks, now,
                   location, localData, tasks, errors>>

\* index.js:65-73  createAuditClient() without an options object: the
\* parameter pattern destructures undefined, which throws a TypeError before
\* the body (the browser check included) runs.
createAuditClientNoOptions ==
    /\ lastCall' = Threw(Call("create", NoInstance) @@ [options |-> "undefined"],
                         "TypeError")
    /\ UNCHANGED <<bound, server, noopTracker, isBrowser, userInfo, nodeEnv, storageWorks, now,
                   location, history, windowListeners, globalAuditInstance,
                   instances, uuidCalls, timers, localData, tasks, errors>>

\* Mutant of cleanup: everything is torn down but the singleton slot keeps
\* pointing at the instance.
cleanupKeepsSlot(i) ==
    /\ i \in 1 .. Len(instances)
    /\ windowListeners' = removeListeners(windowListeners, i, instances[i].eventListeners)
    /\ instances' = [instances EXCEPT ![i].eventListeners = <<>>]
    /\ history' = instances[i].originalHistoryMethods
    /\ lastCall' = Call("cleanup", i)
    /\ UNCHANGED <<bound, server, noopTracker, isBrowser, userInfo, nodeEnv, storageWorks, now,
                   location, uuidCalls, timers, localData, tasks, errors,
                   globalAuditInstance>>

\* Mutant of cleanup: the listeners are removed and the slot is released, but
\* the history primitives are left patched.
cleanupKeepsPatch(i) ==
    /\ i \in 1 .. Len(instances)
    /\ windowListeners' = removeListeners(windowListeners, i, instances[i].eventListeners)
    /\ instances' = [instances EXCEPT ![i].eventListeners = <<>>]
    /\ globalAuditInstance' = NoInstance
    /\ lastCall' = Call("cleanup", i)
    /\ UNCHANGED <<bound, server, noopTracker, isBrowser, userInfo, nodeEnv, storageWorks, now, location, uuidCalls,
                   timers, localData, tasks, errors, history>>

\* Mutant of cleanup: an active instance first tracks the time spent on the
\* route that is current at teardown.
cleanupTracksLast(i) ==
    /\ i \in 1 .. Len(instances)
    /\ LET w == IF instances[i].eventListeners # <<>> /\ Len(tasks) < bound.tasks
                THEN handleRouteChange(World, i, location)
                ELSE World
       IN  /\ instances' = [w.instances EXCEPT ![i].eventListeners = <<>>]
           /\ localData' = w.localData
           /\ tasks' = w.tasks
           /\ errors' = w.errors
    /\ windowListeners' = removeListeners(windowListeners, i, instances[i].eventListeners)
    /\ history' = instances[i].originalHistoryMethods
    /\ globalAuditInstance' = NoInstance
    /\ lastCall' = Call("cleanup", i)
    /\ UNCHANGED <<bound, server, noopTracker, isBrowser, userInfo, nodeEnv, storageWorks, now,
                   location, uuidCalls, timers>>

\* index.js:275-291  cleanup of the handle i (any handle ever returned); the
\* saved originals are functions, so both guards at 282 and 285 pass.
cleanup(i) ==
    /\ i \in 1 .. Len(instances)
    /\ windowListeners' = removeListeners(windowListeners, i, instances[i].eventListeners)
    /\ instances' = [instances EXCEPT ![i].eventListeners = <<>>]
    /\ history' = instances[i].originalHistoryMethods
    /\ globalAuditInstance' = NoInstance
    /\ lastCall' = Call("cleanup", i)
    /\ UNCHANGED <<bound, server, noopTracker, isBrowser, userInfo, nodeEnv, storageWorks, now, location, uuidCalls,
                   timers, localData, tasks, errors>>

\* index.js:265-272  clearLocalData() on the handle i: removeItem deletes the
\* storage key, so the stored list reads as empty (removing a key does not
\* depend on whether the storage accepts writes).
clearLocalData(i) ==
    /\ i \in 1 .. Len(instances)
    /\ localData' = <<>>
    /\ lastCall' = Call("clearLocalData", i)
    /\ UNCHANGED <<bound, server, noopTracker, isBrowser, userInfo, nodeEnv, storageWorks, now, location, history,
                   windowListeners, globalAuditInstance, instances, uuidCalls,
                   timers, tasks, errors>>

\* The page script that called pushState / replaceState returns: the pending
\* rejection handlers run. Until then no callback of the event loop (a timer,
\* a popstate event, a fetch response) can run, while the script itself may
\* go on calling the API.
scriptEnds ==
    /\ pendingRejections(World) # {}
    /\ Commit(runMicrotasks(World))
    /\ lastCall' = Call("microtask", NoInstance)
    /\ UNCHANGED <<bound, server, noopTracker, isBrowser, userInfo, nodeEnv, storageWorks, now, location, history,
                   windowListeners, globalAuditInstance, uuidCalls, timers>>

\* A call of history.pushState / history.replaceState by the page.
Navigate(method, event, r) ==
    /\ isBrowser
    /\ LET w == callHistoryMethod(World, history[method], event, r)
           call == Call("navigate", NoInstance) @@ [url |-> r]
       IN /\ Len(w.tasks) <= bound.tasks
          /\ Commit(w)
          /\ location' = IF w.threw THEN location ELSE r
          /\ lastCall' = IF w.threw THEN Threw(call, "SecurityError")
                         ELSE call @@ [returned |-> w.result]
    /\ UNCHANGED <<bound, server, noopTracker, isBrowser, userInfo, nodeEnv, storageWorks, now, history,
                   windowListeners, globalAuditInstance, uuidCalls, timers>>

pushState(r) == Navigate("pushState", "pushstate", r)
replaceState(r) == Navigate("replaceState", "replacestate", r)

\* The browser's back/forward navigation: the location changes, then the
\* native popstate event is dispatched on window.
popstate(r) ==
    /\ isBrowser
    /\ pendingRejections(World) = {}
    /\ LET w == dispatchEvent(World, windowListeners, "popstate", r)
       IN /\ Len(w.tasks) <= bound.tasks
          /\ Commit(runMicrotasks(w))
    /\ location' = r
    /\ lastCall' = Call("navigate", NoInstance)
    /\ UNCHANGED <<bound, server, noopTracker, isBrowser, userInfo, nodeEnv, storageWorks, now, history,
                   windowListeners, globalAuditInstance, uuidCalls, timers>>

\* index.js:138-140  the deferred callback of instance i runs
initialTimer(i) ==
    /\ i \in timers
    /\ Len(tasks) < bound.tasks
    /\ pendingRejections(World) = {}
    /\ Commit(runMicrotasks(track(World, i, "init", instances[i].currentRoute, 0)))
    /\ timers' = timers \ {i}
    /\ lastCall' = Call("timer", i)
    /\ UNCHANGED <<bound, server, noopTracker, isBrowser, userInfo, nodeEnv, storageWorks, now, location, history,
                   windowListeners, globalAuditInstance, uuidCalls>>

\* index.js:142  a manual track({route, duration}) on the handle i
ManualRoutes == {"/m"}
ManualDurations == {5}
\* Mutant of manualTrack: the call also restarts the route measurement, as a
\* navigation does.
manualTrackRestartsRoute(i, r, d) ==
    /\ i \in 1 .. Len(instances)
    /\ Len(tasks) < bound.tasks
    /\ LET w == track(World, i, "manual", r, d)
       IN  Commit([w EXCEPT !.instances[i].currentRoute = r,
                            !.instances[i].routeStartTime = now])
    /\ lastCall' = Call("track", i) @@ [route |-> r, duration |-> d]
    /\ UNCHANGED <<bound, server, noopTracker, isBrowser, userInfo, nodeEnv, storageWorks, now, location, history,
                   windowListeners, globalAuditInstance, uuidCalls, timers>>

manualTrack(i, r, d) ==
    /\ i \in 1 .. Len(instances)
    /\ Len(tasks) < bound.tasks
    /\ Commit(track(World, i, "manual", r, d))
    /\ lastCall' = Call("track", i) @@ [route |-> r, duration |-> d]
    /\ UNCHANGED <<bound, server, noopTracker, isBrowser, userInfo, nodeEnv, storageWorks, now, location, history,
                   windowListeners, globalAuditInstance, uuidCalls, timers>>

\* Date.now() reads another instant: time passes, or the wall clock is set back.
Tick(t) ==
    /\ t # now
    /\ now' = t
    /\ lastCall' = Call("tick", NoInstance)
    /\ UNCHANGED <<bound, server, noopTracker, isBrowser, userInfo, nodeEnv, storageWorks, location, history,
                   windowListeners, globalAuditInstance, instances, uuidCalls,
                   timers, localData, tasks, errors>>

\* index.js:79  track of the no-op object: async () => {}
noopTrack ==
    /\ noopTracker
    /\ lastCall' = Call("track", NoopTracker)
    /\ UNCHANGED <<bound, server, noopTracker, isBrowser, userInfo, nodeEnv, storageWorks, now,
                   location, history, windowListeners, globalAuditInstance,
                   instances, uuidCalls, timers, localData, tasks, errors>>

\* index.js:80  cleanup of the no-op object: () => {}
noopCleanup ==
    /\ noopTracker
    /\ lastCall' = Call("cleanup", NoopTracker)
    /\ UNCHANGED <<bound, server, noopTracker, isBrowser, userInfo, nodeEnv, storageWorks, now,
                   location, history, windowListeners, globalAuditInstance,
                   instances, uuidCalls, timers, localData, tasks, errors>>

\* The pending POST of task k ends with `outcome`.
settle(k, outcome) ==
    /\ k \in 1 .. Len(tasks)
    /\ tasks[k].pc \in {"primary", "secondary"}
    /\ pendingRejections(World) = {}
    /\ Commit(resumeTrack(World, k, outcome))
    /\ lastCall' = Call("response", k)
    /\ UNCHANGED <<bound, server, noopTracker, isBrowser, userInfo, nodeEnv, storageWorks, now, location, history,
                   windowListeners, globalAuditInstance, uuidCalls, timers>>

(***************************************************************************)
(* Specification of the tracker with local storage only (the defaults of   *)
(* index.js:68-72: enableLocalStorage = true, enableServerSync = false).   *)
(***************************************************************************)
DefaultConfig ==
    [userId |-> "anonymous", baseUrl |-> "", clientDbUrl |-> "",
     includeGeo |-> FALSE,
     enableLocalStorage |-> TRUE, enableServerSync |-> FALSE,
     onErrorThrows |-> FALSE]

InitPage ==
    /\ isBrowser = TRUE
    /\ storageWorks = TRUE
    /\ userInfo = "ok"
    /\ nodeEnv = "production"
    /\ history = [pushState |-> Native, replaceState |-> Native]
    /\ windowListeners = <<>>
    /\ globalAuditInstance = NoInstance
    /\ instances = <<>>
    /\ uuidCalls = 0
    /\ timers = {}
    /\ localData = <<>>
    /\ tasks = <<>>
    /\ errors = {}
    /\ lastCall = Call("load", NoInstance)
    /\ noopTracker = FALSE
    /\ server = NoServer

\* Lifecycle of the singleton: several handles, creation and cleanup in any
\* order, navigation in between; the clock stands still.
Init ==
    /\ InitPage
    /\ now = 0
    /\ location = "/a"
    /\ bound = [inst |-> MaxInst, tasks |-> MaxTasks]

Next ==
    \/ createAuditClient(DefaultConfig)
    \/ \E i \in 1 .. MaxInst : cleanup(i)
    \/ \E r \in Routes : pushState(r)
    \/ \E r \in Routes : replaceState(r)
    \/ \E r \in Routes : popstate(r)
    \/ \E i \in 1 .. MaxInst : initialTimer(i)

Spec == Init /\ [][Next]_vars

\* Navigation under a moving (and possibly set-back) clock, with manual
\* track() calls.
InitNav ==
    /\ InitPage
    /\ now = 0
    /\ location = "/a"
    /\ bound = [inst |-> 1, tasks |-> NavTasks]

NextNav ==
    \/ createAuditClient(DefaultConfig)
    \/ \E i \in {1} : cleanup(i)
    \/ \E r \in Routes : pushState(r)
    \/ \E r \in Routes : replaceState(r)
    \/ \E r \in Routes : popstate(r)
    \/ \E i \in {1} : initialTimer(i)
    \/ \E i \in {1}, r \in ManualRoutes, d \in ManualDurations :
           manualTrack(i, r, d)
    \/ \E t \in Instants : Tick(t)

SpecNav == InitNav /\ [][NextNav]_vars

\* index.js:68  includeGeo is accepted, at its default or switched on.
GeoOptions == {[DefaultConfig EXCEPT !.includeGeo = g] : g \in BOOLEAN}

\* Two successive instances with every kind of event; the clock stands still.

InitSession ==
    /\ InitPage
    /\ now = 0
    /\ location = "/a"
    /\ bound = [inst |-> 2, tasks |-> SessionTasks]

NextSession ==
    \/ createAuditClient(DefaultConfig)
    \/ \E i \in {1, 2} : cleanup(i)
    \/ \E r \in Routes : pushState(r)
    \/ \E r \in Routes : replaceState(r)
    \/ \E r \in Routes : popstate(r)
    \/ \E i \in {1, 2} : initialTimer(i)
    \/ \E i \in {1, 2}, r \in ManualRoutes, d \in ManualDurations :
           manualTrack(i, r, d)

SpecSession == InitSession /\ [][NextSession]_vars

\* One instance created with includeGeo false or true, its initial event and
\* its navigations.
InitGeo ==
    /\ InitPage
    /\ now = 0
    /\ location = "/a"
    /\ bound = [inst |-> 1, tasks |-> GeoTasks]

NextGeo ==
    \/ \E cfg \in GeoOptions : createAuditClient(cfg)
    \/ cleanup(1)
    \/ \E r \in Routes : pushState(r)
    \/ \E r \in Routes : popstate(r)
    \/ initialTimer(1)
    \/ clearLocalData(1)

SpecGeo == InitGeo /\ [][NextGeo]_vars

\* Delivery: one instance with server sync enabled, every combination of the
\* two sink URLs, an onError that returns or throws, every runtime mode and
\* every outcome of each POST.
DeliveryConfigs ==
    {[DefaultConfig EXCEPT !.enableServerSync = TRUE, !.baseUrl = b,
                           !.clientDbUrl = d, !.onErrorThrows = x] :
        b \in {"", "http://x/audit"}, d \in {"", "http://db/audit"},
        x \in BOOLEAN}

DeliveryRoutes == {"/b"}   \* every navigation is a pushState to /b

InitDelivery ==
    /\ isBrowser = TRUE
    /\ storageWorks = TRUE
    /\ userInfo = "ok"
    /\ nodeEnv \in {"development", "production", "noprocess"}
    /\ history = [pushState |-> Native, replaceState |-> Native]
    /\ windowListeners = <<>>
    /\ globalAuditInstance = NoInstance
    /\ instances = <<>>
    /\ uuidCalls = 0
    /\ timers = {}
    /\ localData = <<>>
    /\ tasks = <<>>
    /\ errors = {}
    /\ lastCall = Call("load", NoInstance)
    /\ noopTracker = FALSE
    /\ server = NoServer
    /\ now = 0
    /\ location = "/a"
    /\ bound = [inst |-> 1, tasks |-> DeliveryTasks]

NextDelivery ==
    \/ \E cfg \in DeliveryConfigs : createAuditClient(cfg)
    \/ \E r \in DeliveryRoutes : pushState(r)
    \/ \E i \in {1} : initialTimer(i)
    \/ \E i \in {1}, r \in ManualRoutes, d \in ManualDurations :
           manualTrack(i, r, d)
    \/ \E k \in 1 .. DeliveryTasks, o \in Outcomes : settle(k, o)

SpecDelivery == InitDelivery /\ [][NextDelivery]_vars

\* Termination of track(): one instance whose onError returns, with the
\* primary sink alone or with both sinks, in production mode. The timer of AbortSignal.timeout(10000) (index.js:196, 234) ends a
\* pending fetch at the latest, so the continuation of every pending track()
\* call is eventually run: weak fairness of settle.
TimeoutConfigs ==
    {[DefaultConfig EXCEPT !.enableServerSync = TRUE, !.baseUrl = "http://x/audit",
                           !.clientDbUrl = d] : d \in {"", "http://db/audit"}}

InitTimeout ==
    /\ InitPage
    /\ now = 0
    /\ location = "/a"
    /\ bound = [inst |-> 1, tasks |-> TimeoutTasks]

NextTimeout ==
    \/ \E cfg \in TimeoutConfigs : createAuditClient(cfg)
    \/ \E r \in DeliveryRoutes : pushState(r)
    \/ \E i \in {1} : initialTimer(i)
    \/ \E i \in {1}, r \in ManualRoutes, d \in ManualDurations :
           manualTrack(i, r, d)
    \/ \E k \in 1 .. TimeoutTasks, o \in Outcomes : settle(k, o)

FairSettle ==
    \A k \in 1 .. TimeoutTasks : WF_vars(\E o \in Outcomes : settle(k, o))

SpecTimeout == InitTimeout /\ [][NextTimeout]_vars /\ FairSettle

\* The options of index.js:65-73: a client built from no options, from
\* baseUrl alone, and from baseUrl with server sync switched on.
OptionSets ==
    {DefaultConfig,
     [DefaultConfig EXCEPT !.baseUrl = "http://x/audit"],
     [DefaultConfig EXCEPT !.baseUrl = "http://x/audit", !.enableServerSync = TRUE]}

InitConfig ==
    /\ InitPage
    /\ now = 0
    /\ location = "/a"
    /\ bound = [inst |-> 1, tasks |-> ConfigTasks]

NextConfig ==
    \/ \E cfg \in OptionSets : createAuditClient(cfg)
    \/ \E i \in {1} : cleanup(i)
    \/ \E r \in Routes : pushState(r)
    \/ \E i \in {1} : initialTimer(i)
    \/ \E i \in {1}, r \in ManualRoutes, d \in ManualDurations :
           manualTrack(i, r, d)
    \/ \E k \in 1 .. ConfigTasks, o \in Outcomes : settle(k, o)

SpecConfig == InitConfig /\ [][NextConfig]_vars

\* The environment: the module is loaded in a browser, where reading the
\* user information succeeds or throws, or outside a browser (index.js:2-3);
\* the client has both sinks and server sync.
EnvConfig ==
    [DefaultConfig EXCEPT !.enableServerSync = TRUE, !.baseUrl = "http://x/audit",
                          !.clientDbUrl = "http://db/audit"]

InitEnv ==
    /\ isBrowser \in BOOLEAN
    /\ userInfo \in (IF isBrowser THEN UserInfoModes ELSE {"ReferenceError"})
    /\ storageWorks = TRUE
    /\ nodeEnv = "production"
    /\ history = [pushState |-> Native, replaceState |-> Native]
    /\ windowListeners = <<>>
    /\ globalAuditInstance = NoInstance
    /\ instances = <<>>
    /\ uuidCalls = 0
    /\ timers = {}
    /\ localData = <<>>
    /\ tasks = <<>>
    /\ errors = {}
    /\ lastCall = Call("load", NoInstance)
    /\ noopTracker = FALSE
    /\ server = NoServer
    /\ now = 0
    /\ location = "/a"
    /\ bound = [inst |-> 1, tasks |-> EnvTasks]

NextEnv ==
    \/ createAuditClient(EnvConfig)
    \/ \E i \in {1} : cleanup(i)
    \/ \E r \in DeliveryRoutes : pushState(r)
    \/ \E i \in {1} : initialTimer(i)
    \/ \E i \in {1}, r \in ManualRoutes, d \in ManualDurations :
           manualTrack(i, r, d)
    \/ \E k \in 1 .. EnvTasks, o \in {"ok", "network"} : settle(k, o)
    \/ scriptEnds
    \/ clearLocalData(1)
    \/ noopTrack
    \/ noopCleanup

SpecEnv == InitEnv /\ [][NextEnv]_vars

(***************************************************************************)
(* Vocabulary of the properties.                                           *)
(***************************************************************************)
Handles == 1 .. Len(instances)

\* Created and not yet cleaned up: cleanup empties eventListeners (index.js:279).
Active(i) == i \in Handles /\ instances[i].eventListeners # <<>>

\* The instances that have a listener registered on window.
Listening == {windowListeners[k].inst : k \in 1 .. Len(windowListeners)}

\* The step performs the operation `op`.
CallStep(op) == lastCall'.op = op

\* The tasks this step appended.
NewTasks == (Len(tasks) + 1) .. Len(tasks')

\* What the trackers have recorded in the world w.
Tracked(w) ==
    [instances |-> w.instances, localData |-> w.localData,
     tasks |-> w.tasks, errors |-> w.errors]

\* Instance i is active and both history primitives are its own wrappers.
Intact(i) ==
    /\ Active(i)
    /\ history.pushState = Wrapper(instances[i].originalHistoryMethods.pushState, i)
    /\ history.replaceState = Wrapper(instances[i].originalHistoryMethods.replaceState, i)

(***************************************************************************)
(* Properties.                                                             *)
(***************************************************************************)

\* C1: while some instance is active (created, not cleaned up), a
\* createAuditClient call returns an active instance and installs no further
\* window listener and no further history patch.
C1_CreateReturnsActiveInstance ==
    [][(CallStep("create") /\ \E i \in Handles : Active(i))
         => /\ Active(lastCall'.h)
            /\ windowListeners' = windowListeners
            /\ history' = history]_vars

\* C2: in every reachable state at most one instance has navigation
\* listeners installed on window.
C2_AtMostOneListening == Cardinality(Listening) <= 1

\* C3: after cleanup of an instance the two history primitives are the
\* functions captured before that instance patched them (none of its wrappers
\* is left in them), and calling them tracks nothing (no task, nothing saved,
\* no error).
C3_CleanupRestoresHistory ==
    lastCall.op = "cleanup" =>
        /\ history = instances[lastCall.h].originalHistoryMethods
        /\ \A m \in {"pushState", "replaceState"} :
              \A n \in 1 .. Len(history[m]) : history[m][n] # lastCall.h
        /\ \A r \in Routes :
              /\ Tracked(callHistoryMethod(World, history.pushState,
                                            "pushstate", r)) = Tracked(World)
              /\ Tracked(callHistoryMethod(World, history.replaceState,
                                            "replacestate", r)) = Tracked(World)

\* C3 witness: an instance that tracked a navigation through its patched
\* primitives has just been cleaned up.
C3_Witness ==
    /\ lastCall.op = "cleanup"
    /\ \E k \in 1 .. Len(tasks) : tasks[k].inst = lastCall.h /\ tasks[k].kind = "nav"

\* C4: a cleanup call on a handle that was already cleaned up leaves the
\* history primitives, the window listeners and the singleton slot unchanged.
C4_SecondCleanupNoOp ==
    [][(CallStep("cleanup") /\ ~Active(lastCall'.h))
         => UNCHANGED <<history, windowListeners, globalAuditInstance>>]_vars

\* C5: every navigation-triggered event is appended after the earlier ones
\* and carries the route that was current before the signal (which, for an
\* intact instance, is the location being left); only then the instance's
\* current route becomes the new location and its clock restarts.
C5_EventForRouteLeft ==
    [][/\ SubSeq(tasks', 1, Len(tasks)) = tasks
       /\ \A k \in NewTasks :
             tasks'[k].kind = "nav" =>
                 LET i == tasks'[k].inst
                 IN /\ tasks'[k].activity.route = instances[i].currentRoute
                    /\ Intact(i) => tasks'[k].activity.route = location
                    /\ instances'[i].currentRoute = location'
                    /\ instances'[i].routeStartTime = now]_vars

\* C5 witness: created on /a, navigated /a -> /b -> elsewhere: two
\* navigation events, for /a and then for /b.
C5_Witness ==
    /\ Len(tasks) >= 2
    /\ tasks[1].kind = "nav" /\ tasks[1].activity.route = "/a"
    /\ tasks[2].kind = "nav" /\ tasks[2].activity.route = "/b"
    /\ tasks[1].inst = tasks[2].inst

\* C6: while an instance is active, every pushState, replaceState and native
\* popstate produces exactly one tracked event.
C6_OneEventPerNavigation ==
    [][(CallStep("navigate") /\ \E i \in Handles : Active(i))
         => Len(tasks') = Len(tasks) + 1]_vars

\* C7: the deferred initial event of an instance is emitted at most once,
\* has duration 0 and carries the path that was current at creation.
C7_InitialEventIsLanding ==
    /\ \A k \in 1 .. Len(tasks) :
          tasks[k].kind = "init" =>
              /\ tasks[k].activity.duration = 0
              /\ tasks[k].activity.route = instances[tasks[k].inst].landing
    /\ \A k, l \in 1 .. Len(tasks) :
          (tasks[k].kind = "init" /\ tasks[l].kind = "init"
             /\ tasks[k].inst = tasks[l].inst) => k = l

\* C8: the duration of a navigation event is the rounded number of seconds
\* since the previous transition, and 0 when the clock reads earlier than the
\* recorded start instant.
C8_DurationRoundedAndClamped ==
    [][\A k \in NewTasks :
         tasks'[k].kind = "nav" =>
             LET start == instances[tasks'[k].inst].routeStartTime
             IN tasks'[k].activity.duration =
                    IF now < start THEN 0 ELSE MathRound(now - start, MsPerSecond)]_vars

\* C9: every event of an instance (initial, navigation, manual) carries the
\* sessionId generated at that instance's creation, and different instances
\* carry different sessionIds.
C9_SessionIdStable ==
    /\ \A k \in 1 .. Len(tasks) :
          tasks[k].activity.sessionId = instances[tasks[k].inst].sessionId
    /\ \A i, j \in Handles :
          i # j => instances[i].sessionId # instances[j].sessionId

\* C9 witness: the first instance emitted an initial and a navigation event,
\* was cleaned up, and a second instance emitted a manual event.
C9_Witness ==
    /\ Len(instances) = 2
    /\ ~Active(1)
    /\ \E k \in 1 .. Len(tasks) : tasks[k].inst = 1 /\ tasks[k].kind = "init"
    /\ \E k \in 1 .. Len(tasks) : tasks[k].inst = 1 /\ tasks[k].kind = "nav"
    /\ \E k \in 1 .. Len(tasks) : tasks[k].inst = 2 /\ tasks[k].kind = "manual"


\* C10: with an onError that returns normally, whatever the outcome of the
\* POSTs, no track() promise rejects, a resolved one resolves to the activity
\* it built, and the navigation handler has run to its end (the instance's
\* current route follows the location).
C10_TrackNeverRejects ==
    /\ \A k \in 1 .. Len(tasks) :
          ~instances[tasks[k].inst].cfg.onErrorThrows =>
              /\ tasks[k].pc # "rejected"
              /\ tasks[k].pc = "resolved" => tasks[k].result = <<tasks[k].activity>>
    /\ \A i \in Handles : Intact(i) => instances[i].currentRoute = location

\* C10 witness: a navigation event whose two POSTs both failed in development
\* mode (both errors went to onError) has resolved.
C10_Witness ==
    \E k \in 1 .. Len(tasks) :
        /\ tasks[k].kind = "nav"
        /\ tasks[k].pc = "resolved"
        /\ tasks[k].primary = "failed"
        /\ tasks[k].secondary = "failed"
        /\ nodeEnv = "development"
        /\ ~instances[tasks[k].inst].cfg.onErrorThrows
        /\ Cardinality(errors) >= 2

\* C19: cleanup of the active instance frees the singleton slot, and a
\* createAuditClient call that finds the slot free (it stays free until that
\* call) builds a fresh instance: a handle never returned before, with its
\* own listeners on window and its own wrappers as the history primitives,
\* occupying the slot.
C19_FreshInstanceAfterCleanup ==
    [][/\ (CallStep("cleanup") /\ Active(lastCall'.h))
            => globalAuditInstance' = NoInstance
       /\ (CallStep("create") /\ globalAuditInstance = NoInstance)
            => LET new == lastCall'.h
               IN /\ new = Len(instances) + 1
                  /\ new \notin Handles
                  /\ Len(instances') = new
                  /\ instances'[new].eventListeners = ListenerEvents
                  /\ listenersOf(new, ListenerEvents) =
                         SelectSeq(windowListeners', LAMBDA l : l.inst = new)
                  /\ history'.pushState = Wrapper(history.pushState, new)
                  /\ history'.replaceState = Wrapper(history.replaceState, new)
                  /\ globalAuditInstance' = new]_vars

\* C19 witness: the first instance was cleaned up and the next call returned
\* the second, intact instance.
C19_Witness ==
    /\ lastCall = Call("create", 2)
    /\ ~Active(1)
    /\ Intact(2)
    /\ globalAuditInstance = 2

(***************************************************************************)
(* Delivery to the sinks.                                                  *)
(***************************************************************************)

\* C11: every failed delivery attempt (non-success status, timeout or
\* transport error; primary or secondary sink) has been reported to the
\* configured onError callback, whatever the runtime mode is.
C11_FailureReachesOnError ==
    \A k \in 1 .. Len(tasks) : \A sink \in {"primary", "secondary"} :
        tasks[k][sink] = "failed" =>
            \E e \in errors : e.task = k /\ e.sink = sink

\* C12: with both sinks configured and server delivery enabled, every tracked
\* event has been POSTed to both sinks, whatever the other sink's attempt is
\* doing: still pending (slow), failed or succeeded.
C12_BothSinksAttempted ==
    \A k \in 1 .. Len(tasks) :
        LET cfg == instances[tasks[k].inst].cfg
        IN (primaryWanted(cfg) /\ secondaryWanted(cfg)) =>
               /\ tasks[k].primaryPosts = 1
               /\ tasks[k].secondaryPosts = 1

\* C13: each tracked event is POSTed at most once to each sink: its requests
\* are exactly the counted ones, no two of them go to the same sink, and an
\* attempt that failed is final (nothing is pending or queued for that sink).
C13_AtMostOnePostPerSink ==
    \A k \in 1 .. Len(tasks) :
        LET t == tasks[k]
        IN /\ t.primaryPosts <= 1
           /\ t.secondaryPosts <= 1
           /\ Len(t.requests) = t.primaryPosts + t.secondaryPosts
           /\ \A m, n \in 1 .. Len(t.requests) :
                 t.requests[m].sink = t.requests[n].sink => m = n
           /\ \A sink \in {"primary", "secondary"} :
                 t[sink] = "failed" => t.pc # sink

\* C13 witness: an event whose POSTs to both sinks failed has settled with
\* one request per sink.
C13_Witness ==
    \E k \in 1 .. Len(tasks) :
        /\ tasks[k].primary = "failed"
        /\ tasks[k].secondary = "failed"
        /\ tasks[k].pc = "resolved"
        /\ Len(tasks[k].requests) = 2

\* C14: navigation handling never waits for delivery: a navigation seen by an
\* intact instance emits its event, leaves that event's POST unanswered
\* (pending) and every earlier track() call as it was, and has already reset
\* the instance's current route and clock when it returns; this holds also
\* while earlier POSTs are still unanswered.
C14_NavigationNeverWaits ==
    [][CallStep("navigate") =>
          \A i \in Handles : Intact(i) =>
              /\ Len(tasks') = Len(tasks) + 1
              /\ SubSeq(tasks', 1, Len(tasks)) = tasks
              /\ \A k \in NewTasks :
                    /\ tasks'[k].kind = "nav"
                    /\ tasks'[k].inst = i
                    /\ Len(tasks'[k].requests) > 0 =>
                          tasks'[k].pc \in {"primary", "secondary"}
              /\ instances'[i].currentRoute = location'
              /\ instances'[i].routeStartTime = now]_vars

\* C14 witness: the sink has answered neither the POST of the navigation away
\* from /a nor that of the following navigation away from /b, and the
\* instance already follows the location.
C14_Witness ==
    /\ Len(tasks) = 2
    /\ \A k \in {1, 2} : tasks[k].kind = "nav" /\ tasks[k].pc = "primary"
    /\ tasks[1].activity.route = "/a"
    /\ tasks[2].activity.route = "/b"
    /\ instances[1].currentRoute = location

\* C15: with a valid configuration (an onError that returns), every track()
\* invocation eventually resolves, whatever the sinks do, each pending POST
\* being ended by its own timeout at the latest: from some point on every
\* track() call made has resolved, and resolved to its activity.
C15_TrackEventuallyResolves ==
    <>[](\A k \in 1 .. Len(tasks) :
            tasks[k].pc = "resolved" /\ tasks[k].result = <<tasks[k].activity>>)

\* C15 witness: a track() call whose two POSTs both ran into the timeout has
\* resolved.
C15_Witness ==
    \E k \in 1 .. Len(tasks) :
        /\ ~instances[tasks[k].inst].cfg.onErrorThrows
        /\ Len(tasks[k].requests) = 2
        /\ tasks[k].primary = "failed"
        /\ tasks[k].secondary = "failed"
        /\ tasks[k].result = <<tasks[k].activity>>

(***************************************************************************)
(* Options and environment.                                                *)
(***************************************************************************)

\* C16: for a client constructed with baseUrl and every other option at its
\* default, every tracked event is POSTed, as the JSON of the activity, to
\* {baseUrl}/audit-log.
C16_DefaultsPostEveryEvent ==
    \A k \in 1 .. Len(tasks) :
        LET t == tasks[k]
            cfg == instances[t.inst].cfg
        IN (cfg.baseUrl # "" /\ cfg = [DefaultConfig EXCEPT !.baseUrl = cfg.baseUrl])
               => \E n \in 1 .. Len(t.requests) :
                      /\ t.requests[n].url = <<cfg.baseUrl, "/audit-log">>
                      /\ t.requests[n].body = t.activity

\* C16, amended: for a client constructed with baseUrl, every tracked event
\* is POSTed once, as the JSON of the activity, to {baseUrl}/audit-log when
\* enableServerSync is true; with enableServerSync at its default (false)
\* no request is made and the event is only saved locally.
C16_PostedOnlyWithServerSync ==
    \A k \in 1 .. Len(tasks) :
        LET t == tasks[k]
            cfg == instances[t.inst].cfg
        IN cfg.baseUrl # "" =>
               IF cfg.enableServerSync
               THEN t.requests = <<[sink |-> "primary",
                                    url |-> <<cfg.baseUrl, "/audit-log">>,
                                    body |-> t.activity]>>
               ELSE /\ t.requests = <<>>
                    /\ t.saved = <<TRUE>>

\* C16 witness: a client with baseUrl and server sync has POSTed its initial,
\* a navigation and a manual event.
C16_Witness ==
    /\ Len(tasks) = 3
    /\ instances[1].cfg.enableServerSync
    /\ {tasks[k].kind : k \in 1 .. 3} = {"init", "nav", "manual"}
    /\ \A k \in 1 .. 3 : Len(tasks[k].requests) = 1

\* C17: constructing the client without baseUrl throws, so no instance built
\* from options without baseUrl exists, and nothing else throws: no track()
\* call is rejected.
C17_MissingBaseUrlThrows ==
    /\ \A i \in Handles : instances[i].cfg.baseUrl # ""
    /\ \A k \in 1 .. Len(tasks) : tasks[k].pc # "rejected"

\* Every combination of the options that decide what a track() call does
\* with an event, with and without baseUrl, on pages where the storage
\* accepts or refuses writes and reading the user information succeeds or
\* throws, in development and in production mode, and outside a browser.
OptionTasks == 2

AllOptions ==
    {[DefaultConfig EXCEPT !.baseUrl = b, !.enableLocalStorage = l,
                           !.enableServerSync = y, !.onErrorThrows = x] :
        b \in {"", "http://x/audit"}, l \in BOOLEAN, y \in BOOLEAN, x \in BOOLEAN}

InitOptions ==
    /\ isBrowser \in BOOLEAN
    /\ userInfo \in (IF isBrowser THEN UserInfoModes ELSE {"ReferenceError"})
    /\ storageWorks \in BOOLEAN
    /\ nodeEnv \in {"development", "production"}
    /\ history = [pushState |-> Native, replaceState |-> Native]
    /\ windowListeners = <<>>
    /\ globalAuditInstance = NoInstance
    /\ instances = <<>>
    /\ uuidCalls = 0
    /\ timers = {}
    /\ localData = <<>>
    /\ tasks = <<>>
    /\ errors = {}
    /\ lastCall = Call("load", NoInstance)
    /\ noopTracker = FALSE
    /\ server = NoServer
    /\ now = 0
    /\ location = "/a"
    /\ bound = [inst |-> 1, tasks |-> OptionTasks]

NextOptions ==
    \/ \E cfg \in AllOptions : createAuditClient(cfg)
    \/ createAuditClientNoOptions
    \/ cleanup(1)
    \/ \E r \in DeliveryRoutes : pushState(r)
    \/ initialTimer(1)
    \/ \E r \in ManualRoutes, d \in ManualDurations : manualTrack(1, r, d)
    \/ \E k \in 1 .. OptionTasks, o \in {"ok", "network"} : settle(k, o)
    \/ scriptEnds
    \/ noopTrack
    \/ noopCleanup

SpecOptions == InitOptions /\ [][NextOptions]_vars

\* C17, amended: no ConfigurationError exists and no option is validated. A
\* createAuditClient call given an options object throws nothing, with or
\* without baseUrl: in a browser it returns an active instance, elsewhere the
\* no-op tracker; a call without an options object throws a TypeError and
\* changes nothing. A client built without baseUrl never POSTs to a primary
\* sink. A track({route, duration}) call is rejected only when reading the
\* user information throws (nothing is then built, saved or sent) or when
\* onError itself throws on a sink failure handed to it; otherwise, once its
\* POSTs have ended, it resolves to the activity. The event is saved locally
\* exactly when it was built, enableLocalStorage is on and the storage
\* accepts the write.
C17_NoConfigurationError ==
    /\ [](\A k \in 1 .. Len(tasks) :
            LET t == tasks[k]
                cfg == instances[t.inst].cfg
            IN /\ cfg.baseUrl = "" =>
                     /\ t.primaryPosts = 0
                     /\ \A n \in 1 .. Len(t.requests) : t.requests[n].sink # "primary"
               /\ t.built = userInfoWorks
               /\ t.pc = "rejected" =>
                     \/ ~t.built /\ t.requests = <<>> /\ t.saved = <<>>
                     \/ /\ t.built /\ cfg.onErrorThrows
                        /\ "failed" \in {t.primary, t.secondary}
                        /\ \E e \in errors : e.task = k /\ e.sink \in {"primary", "secondary"}
               /\ t.built => t.pc \in {"primary", "secondary", "resolved", "rejected"}
               /\ t.pc = "resolved" => t.result = <<t.activity>>
               /\ t.saved = <<TRUE>> <=>
                     (t.built /\ cfg.enableLocalStorage /\ storageWorks)
               /\ t.saved = <<TRUE>> =>
                     \E j \in 1 .. Len(localData) : localData[j] = t.activity)
    /\ [][CallStep("create") =>
             IF "options" \in DOMAIN lastCall'
               THEN /\ lastCall'.threw = "TypeError"
                    /\ UNCHANGED <<instances, history, windowListeners, timers,
                                   globalAuditInstance, uuidCalls, localData,
                                   tasks, errors>>
               ELSE /\ "threw" \notin DOMAIN lastCall'
                    /\ IF isBrowser
                         THEN /\ lastCall'.h \in 1 .. Len(instances')
                              /\ instances'[lastCall'.h].eventListeners # <<>>
                              /\ globalAuditInstance' = lastCall'.h
                         ELSE lastCall'.h = NoopTracker]_vars

\* C17 witness: a client built without baseUrl and with server sync on, on a
\* page whose storage refuses writes, has tracked a navigation that was
\* neither saved nor sent and resolved; then createAuditClient() was called
\* without options and threw.
C17_Witness ==
    /\ Len(instances) = 1
    /\ instances[1].cfg.baseUrl = "" /\ instances[1].cfg.enableServerSync
    /\ instances[1].cfg.enableLocalStorage /\ ~storageWorks
    /\ Active(1)
    /\ \E k \in 1 .. Len(tasks) :
          /\ tasks[k].kind = "nav" /\ tasks[k].pc = "resolved"
          /\ tasks[k].saved = <<FALSE>> /\ tasks[k].requests = <<>>
    /\ "threw" \in DOMAIN lastCall /\ lastCall.threw = "TypeError"
    /\ lastCall.op = "create"

\* C18: outside a browser createAuditClient returns the no-op tracker (it
\* does not throw), and whatever is then called on it, no listener and no
\* history patch is installed, the singleton slot stays empty, no timer is
\* pending, and nothing is tracked, saved, sent or reported.
C18_NoopOutsideBrowser ==
    ~isBrowser =>
        /\ lastCall.op = "create" => lastCall.h = NoopTracker
        /\ windowListeners = <<>>
        /\ history = [pushState |-> Native, replaceState |-> Native]
        /\ globalAuditInstance = NoInstance
        /\ instances = <<>>
        /\ timers = {}
        /\ tasks = <<>>
        /\ localData = <<>>
        /\ errors = {}

\* C18 witness: outside a browser, track has been called on the tracker the
\* factory returned.
C18_Witness ==
    /\ ~isBrowser
    /\ lastCall = Call("track", NoopTracker)

\* The fields every event carries.
EventFields ==
    {"sessionId", "timestamp", "userId", "route", "duration", "ip", "city",
     "region", "country", "latitude", "longitude", "userAgent"}

\* C20: every event in the local audit list and every body POSTed to a sink
\* has all of the twelve fields (a field whose value is undefined would be
\* missing from the JSON), and is the activity of a track() call that built
\* it (the list has no more entries than events were built, and fewer only
\* after clearLocalData); a track() call whose event could not be built is
\* rejected and has saved and sent nothing.
C20_EventsCompleteOrAbsent ==
    LET built == {k \in 1 .. Len(tasks) : tasks[k].built}
    IN /\ \A n \in 1 .. Len(localData) :
             /\ EventFields \subseteq DOMAIN localData[n]
             /\ \E k \in built : localData[n] = tasks[k].activity
       /\ Len(localData) <= Cardinality(built)
       /\ \A k \in 1 .. Len(tasks) :
             /\ \A n \in 1 .. Len(tasks[k].requests) :
                   /\ tasks[k].built
                   /\ EventFields \subseteq DOMAIN tasks[k].requests[n].body
                   /\ tasks[k].requests[n].body = tasks[k].activity
             /\ ~tasks[k].built =>
                   /\ tasks[k].pc = "rejected"
                   /\ tasks[k].requests = <<>>
                   /\ tasks[k].primaryPosts + tasks[k].secondaryPosts = 0

\* C20 witness: reading the user information throws; the initial event and a
\* navigation event could not be built, both rejections were reported, and
\* the local audit list is empty.
C20_Witness ==
    /\ ~userInfoWorks
    /\ Len(tasks) = 2
    /\ {tasks[k].kind : k \in 1 .. 2} = {"init", "nav"}
    /\ \A k \in 1 .. 2 : ~tasks[k].built
    /\ Cardinality(errors) = 2
    /\ localData = <<>>

(***************************************************************************)
(* Geo fields, warnings and the history wrappers.                          *)
(***************************************************************************)

\* The events that exist: those of the track() calls that built one, and
\* those in the local audit list.
Events ==
    {tasks[k].activity : k \in {n \in 1 .. Len(tasks) : tasks[n].built}}
        \cup {localData[n] : n \in 1 .. Len(localData)}

\* C21: no geo resolution takes place (includeGeo off, or on and without
\* effect), and every event carries the sentinel "unknown" as ip, city,
\* region and country, and null as latitude and longitude.
C21_GeoSentinelUnknown ==
    \A e \in Events :
        /\ e.ip = "unknown" /\ e.city = "unknown"
        /\ e.region = "unknown" /\ e.country = "unknown"
        /\ e.latitude = "null" /\ e.longitude = "null"

\* C21, amended: whatever includeGeo is, every event carries ip "local",
\* city, region and country "Unknown" (capitalised), and null as latitude
\* and longitude.
C21_GeoDefaultsLocalUnknown ==
    \A e \in Events :
        /\ e.ip = "local" /\ e.city = "Unknown"
        /\ e.region = "Unknown" /\ e.country = "Unknown"
        /\ e.latitude = "null" /\ e.longitude = "null"

\* C21 witness: an instance created with includeGeo: true has saved a
\* navigation event.
C21_Witness ==
    \E k \in 1 .. Len(tasks) :
        /\ instances[tasks[k].inst].cfg.includeGeo
        /\ tasks[k].kind = "nav"
        /\ \E n \in 1 .. Len(localData) : localData[n] = tasks[k].activity

\* C22: a createAuditClient call made while an instance is active invokes
\* the onError callback with a warning.
C22_SecondCreateCallsOnError ==
    [][(CallStep("create") /\ \E i \in Handles : Active(i))
         => errors' # errors]_vars

\* C22, amended: a createAuditClient call that finds the singleton slot
\* occupied returns the instance in the slot and writes its warning with
\* console.warn; no createAuditClient call invokes onError.
C22_SecondCreateWarnsOnConsole ==
    [][CallStep("create") =>
          /\ errors' = errors
          /\ globalAuditInstance # NoInstance =>
                /\ lastCall' = Warned(Call("create", globalAuditInstance))
                /\ UNCHANGED <<instances, windowListeners, history,
                               globalAuditInstance>>]_vars

\* C22 witness: the second call has returned the active first instance with
\* a console warning.
C22_Witness ==
    /\ lastCall = Warned(Call("create", 1))
    /\ Intact(1)
    /\ Len(instances) = 1

(***************************************************************************)
(* The audit server.  The repository ships no implementation of            *)
(* createAuditServer under src/: the definitions of this section follow    *)
(* the design document (sections 3, 4.1, 4.4, 4.5, 6, 7) and the usage     *)
(* shown in test-examples/server-test.js and test-examples/quick-test.js.  *)
(***************************************************************************)
ServerReqs == 1        \* requests the server receives in SpecServer
AdapterReqs == 2       \* requests side by side in SpecAdapters
EngineReqs == 1        \* requests in SpecEngine

Adapters == {"express", "fastify", "koa"}

\* server-test.js:22-75  what the host's handlers do with a request: each
\* answers itself, with 200 or (/api/error, the catch of /api/manual-track)
\* with 500; none throws.
HandlerPlans ==
    {[kind |-> "answers", statusCode |-> 200],
     [kind |-> "answers", statusCode |-> 500]}

\* Design document, section 4.1: a handler that throws, so that the
\* framework's error handling answers with 500.
ThrowingPlans == {[kind |-> "throws", statusCode |-> 500]}

RequestPlans == HandlerPlans \cup ThrowingPlans

\* Section 6: dbUrl (required), userIdHeader (default x-user-id), enableGeo
\* (default true), onError.
ServerDefaults ==
    [dbUrl |-> "", userIdHeader |-> "x-user-id", enableGeo |-> TRUE]

\* The options the caller passed, filled with the defaults.
serverConfig(options) == options @@ ServerDefaults

\* Section 4.1: the offline IP -> location table; an address without a record
\* falls back to the sentinel.
GeoTable ==
    [ip \in {"1.1.1.1"} |->
        [city |-> "Paris", region |-> "IDF", country |-> "FR",
         latitude |-> "48", longitude |-> "2"]]

GeoSentinel ==
    [city |-> "unknown", region |-> "unknown", country |-> "unknown",
     latitude |-> "null", longitude |-> "null"]

\* Mutant of getClientIp: the real-ip header is consulted first, and the last
\* hop of the forwarded-for header is taken.
getClientIpRealFirst(req) ==
    IF "x-real-ip" \in DOMAIN req.headers
        THEN req.headers["x-real-ip"]
    ELSE IF "x-forwarded-for" \in DOMAIN req.headers
        THEN req.headers["x-forwarded-for"][Len(req.headers["x-forwarded-for"])]
    ELSE IF req.remoteAddress # ""
        THEN req.remoteAddress
    ELSE "unknown"

\* Section 4.1: forwarded-for header (first hop) -> real-ip header ->
\* transport-level remote address -> "unknown".  The forwarded-for header is
\* the list of its comma-separated hops; an absent remote address is "".
getClientIp(req) ==
    IF "x-forwarded-for" \in DOMAIN req.headers
        THEN Head(req.headers["x-forwarded-for"])
    ELSE IF "x-real-ip" \in DOMAIN req.headers
        THEN req.headers["x-real-ip"]
    ELSE IF req.remoteAddress # ""
        THEN req.remoteAddress
    ELSE "unknown"

\* Mutant of getUserId: the header name is not configurable.
getUserIdFixedHeader(cfg, req) ==
    IF "x-user-id" \in DOMAIN req.headers
        THEN req.headers["x-user-id"]
        ELSE "anonymous"

\* Section 4.4: userId from the configured header, "anonymous" when absent.
getUserId(cfg, req) ==
    IF cfg.userIdHeader \in DOMAIN req.headers
        THEN req.headers[cfg.userIdHeader]
        ELSE "anonymous"

\* Section 4.1: resolve never raises; disabled, failed or without a record it
\* yields the sentinel.
resolveGeo(cfg, ip, lookupWorks) ==
    IF cfg.enableGeo /\ lookupWorks /\ ip \in DOMAIN GeoTable
        THEN GeoTable[ip]
        ELSE GeoSentinel

\* Section 4.2: elapsed(sinceInstant), integer seconds, clamped to 0.
elapsed(since, at) ==
    IF at < since THEN 0 ELSE MathRound(at - since, MsPerSecond)

\* Mutant of terminalStatus: a throwing handler is recorded as a success.
terminalStatusAssumesSuccess(adapter, plan) ==
    IF plan.kind = "throws" THEN 200 ELSE plan.statusCode

\* Mutant of terminalStatus: the Koa wrapper reads the status before the
\* framework has answered the error of a throwing downstream.
terminalStatusKoaEarly(adapter, plan) ==
    IF adapter = "koa" /\ plan.kind = "throws" THEN 404 ELSE plan.statusCode

\* Section 4.4: the status code each adapter reads at response completion:
\* the Express wrapper on the response's finish, the Fastify hook pair in
\* its response hook, the Koa wrapper after awaiting downstream (a throwing
\* downstream is answered by the framework with the error status).
terminalStatus(adapter, plan) ==
    CASE adapter = "express" -> plan.statusCode
      [] adapter = "fastify" -> plan.statusCode
      [] adapter = "koa" ->
            IF plan.kind = "throws" THEN 500 ELSE plan.statusCode

\* Sections 3 and 4.4: the server AuditEvent of a request that entered at
\* req.startTime and completed at `at` with `statusCode`.
serverEvent(cfg, req, statusCode, at, lookupWorks) ==
    LET ip == getClientIp(req)
        geo == resolveGeo(cfg, ip, lookupWorks)
    IN  [userId |-> getUserId(cfg, req), route |-> req.url,
         method |-> req.method, statusCode |-> statusCode,
         duration |-> elapsed(req.startTime, at), ip |-> ip,
         city |-> geo.city, region |-> geo.region, country |-> geo.country,
         latitude |-> geo.latitude, longitude |-> geo.longitude]

\* Mutant of recordRequest: a failed lookup is raised into the framework.
recordRequestRaises(cfg, req, plan, at, lookupWorks) ==
    [threw |-> cfg.enableGeo /\ ~lookupWorks,
     event |-> serverEvent(cfg, req, terminalStatus(req.adapter, plan), at,
                           lookupWorks),
     reports |-> {}]

\* Sections 4.1 and 7: what the engine does at response completion.  A failed
\* lookup is an EnrichmentFailure: sentinel values, a report to onError, and
\* nothing raised into the framework.
recordRequest(cfg, req, plan, at, lookupWorks) ==
    [threw |-> FALSE,
     event |-> serverEvent(cfg, req, terminalStatus(req.adapter, plan), at,
                           lookupWorks),
     reports |-> IF cfg.enableGeo /\ ~lookupWorks
                    THEN {"EnrichmentFailure"} ELSE {}]

\* Section 4.5: deliver(event, sinkUrl): a non-success status, a timeout and a
\* transport error are one failure outcome, routed to onError.
deliver(outcome) ==
    IF outcome = "ok"
        THEN [sink |-> "stored", reports |-> {}]
        ELSE [sink |-> "dropped", reports |-> {"DeliveryFailure"}]

clientVars ==
    <<bound, noopTracker, isBrowser, userInfo, nodeEnv, storageWorks, location, history,
      windowListeners, globalAuditInstance, instances, uuidCalls, timers,
      localData, tasks, errors>>

\* The call of the factory with the options named `given`.
Construction(options, h) ==
    Call("createAuditServer", h) @@ [given |-> DOMAIN options]

\* Mutant of createAuditServer: a missing dbUrl is accepted.
createAuditServerLenient(options) ==
    /\ server.engine = <<>>
    /\ lastCall' = Construction(options, 1)
    /\ server' = [server EXCEPT !.engine =
                     <<serverConfig(options) @@ [given |-> DOMAIN options]>>]
    /\ UNCHANGED <<clientVars, now>>

\* quick-test.js:10-19, section 7: the factory of the server engine.
createAuditServer(options) ==
    /\ server.engine = <<>>
    /\ LET cfg == serverConfig(options)
       IN  IF cfg.dbUrl = ""
             THEN /\ lastCall' = Threw(Construction(options, NoInstance), "dbUrl is required")
                  /\ server' = server
             ELSE /\ lastCall' = Construction(options, 1)
                  /\ server' = [server EXCEPT !.engine =
                                   <<cfg @@ [given |-> DOMAIN options]>>]
    /\ UNCHANGED <<clientVars, now>>

\* Section 4.4: request entry through one of the adapters: the start instant
\* is recorded and the downstream handler is invoked.
requestEnters(adapter, wire) ==
    /\ server.engine # <<>>
    /\ Len(server.reqs) < bound.reqs
    /\ server' = [server EXCEPT !.reqs =
                     Append(@, wire @@ [adapter |-> adapter, startTime |-> now,
                                        phase |-> "handling", plan |-> <<>>,
                                        response |-> 0, sink |-> "none"])]
    /\ lastCall' = Call("middleware", Len(server.reqs) + 1)
    /\ UNCHANGED <<clientVars, now>>

\* Sections 4.4 and 4.5: the host's handler ends as `plan` says and the
\* response completes; the adapter's completion hook has the engine build the
\* event and start its delivery without waiting for it.
responseCompletes(k, plan, lookupWorks) ==
    /\ k \in 1 .. Len(server.reqs)
    /\ server.reqs[k].phase = "handling"
    /\ LET cfg == server.engine[1]
           req == server.reqs[k]
           r == recordRequest(cfg, req, plan, now, lookupWorks)
       IN  server' =
             [server EXCEPT
                !.reqs[k] = [@ EXCEPT !.phase = "completed", !.plan = <<plan>>,
                                      !.response = IF r.threw THEN 500
                                                   ELSE plan.statusCode,
                                      !.sink = IF r.threw THEN "none"
                                               ELSE "pending"],
                !.events = IF r.threw THEN @
                           ELSE Append(@, r.event @@ [req |-> k, at |-> now]),
                !.errors = @ \cup {[req |-> k, err |-> e] : e \in r.reports}]
    /\ lastCall' = Call("response", k)
    /\ UNCHANGED <<clientVars, now>>

\* Section 4.5: the POST of request k's event to dbUrl ends.
deliverySettles(k, outcome) ==
    /\ k \in 1 .. Len(server.reqs)
    /\ server.reqs[k].sink = "pending"
    /\ LET d == deliver(outcome)
       IN  server' =
             [server EXCEPT
                !.reqs[k].sink = d.sink,
                !.errors = @ \cup {[req |-> k, err |-> e] : e \in d.reports}]
    /\ lastCall' = Call("delivered", k)
    /\ UNCHANGED <<clientVars, now>>

\* quick-test.js:42-58  the request and the data of a manual track call.
ManualWire ==
    [method |-> "GET", url |-> "/test", remoteAddress |-> "127.0.0.1",
     headers |-> [h \in {"x-user-id"} |-> "test-user"]]

ManualData ==
    [userId |-> "test-user", route |-> "/test", method |-> "GET",
     statusCode |-> 200, duration |-> 1]

\* quick-test.js:52-58  engine.track(req, data): the caller's data over the
\* fields taken from the request; the event is delivered like any other and
\* the call returns a promise, never throwing.
serverTrack(req, data) ==
    /\ server.engine # <<>>
    /\ \A j \in 1 .. Len(server.events) : server.events[j].req # 0
    /\ LET cfg == server.engine[1]
           base == serverEvent(cfg, req @@ [startTime |-> now],
                               data.statusCode, now, TRUE)
       IN  server' = [server EXCEPT !.events =
                         Append(@, data @@ base @@ [req |-> 0, at |-> now])]
    /\ lastCall' = Call("serverTrack", 0)
    /\ UNCHANGED <<clientVars, now>>

(***************************************************************************)
(* Specifications of the server.                                           *)
(***************************************************************************)
\* The request the frameworks receive in SpecServer and SpecAdapters.
FullWire ==
    [method |-> "GET", url |-> "/api/users", remoteAddress |-> "4.4.4.4",
     headers |-> [h \in {"x-forwarded-for", "x-real-ip", "x-user-id"} |->
                    CASE h = "x-forwarded-for" -> <<"1.1.1.1", "2.2.2.2">>
                      [] h = "x-real-ip" -> "3.3.3.3"
                      [] h = "x-user-id" -> "u1"]]

\* quick-test.js:26-28  dbUrl alone, and the same with the lookup disabled.
GeoServerOptions ==
    {[dbUrl |-> "http://localhost:3002/audit"],
     [dbUrl |-> "http://localhost:3002/audit", enableGeo |-> FALSE]}

\* Values Date.now() takes on the server, in milliseconds.
ServerInstants == {0, 1400}

\* A Node.js process before any engine is constructed.
InitNode ==
    /\ isBrowser = FALSE
    /\ userInfo = "ReferenceError"
    /\ storageWorks = TRUE
    /\ nodeEnv = "production"
    /\ history = [pushState |-> Native, replaceState |-> Native]
    /\ windowListeners = <<>>
    /\ globalAuditInstance = NoInstance
    /\ instances = <<>>
    /\ uuidCalls = 0
    /\ timers = {}
    /\ localData = <<>>
    /\ tasks = <<>>
    /\ errors = {}
    /\ lastCall = Call("load", NoInstance)
    /\ noopTracker = FALSE
    /\ server = NoServer
    /\ now = 0
    /\ location = "/a"

InitServer ==
    /\ InitNode
    /\ bound = [inst |-> 0, tasks |-> 0, reqs |-> ServerReqs]

\* Requests through the three adapters, handlers that answer or throw, a
\* lookup that works or fails, deliveries that succeed or fail, and a clock.
NextServer ==
    \/ \E o \in GeoServerOptions : createAuditServer(o)
    \/ \E a \in Adapters : requestEnters(a, FullWire)
    \/ \E k \in 1 .. ServerReqs + 1, p \in RequestPlans, g \in BOOLEAN :
          responseCompletes(k, p, g)
    \/ \E k \in 1 .. ServerReqs + 1, o \in Outcomes : deliverySettles(k, o)
    \/ \E t \in ServerInstants : Tick(t)

SpecServer == InitServer /\ [][NextServer]_vars

\* The same request given to several adapters side by side.

InitAdapters ==
    /\ InitNode
    /\ bound = [inst |-> 0, tasks |-> 0, reqs |-> AdapterReqs]

NextAdapters ==
    \/ createAuditServer([dbUrl |-> "http://localhost:3002/audit"])
    \/ \E a \in Adapters : requestEnters(a, FullWire)
    \/ \E k \in 1 .. AdapterReqs + 1, p \in RequestPlans :
          responseCompletes(k, p, TRUE)
    \/ \E t \in ServerInstants : Tick(t)

SpecAdapters == InitAdapters /\ [][NextAdapters]_vars

\* Requests with every combination of the address and user headers, engines
\* with and without dbUrl and with a header name of their own, and the
\* manual track call.
Wires ==
    {[method |-> "GET", url |-> "/api/users", remoteAddress |-> ra,
      headers |-> [h \in hs |->
                     CASE h = "x-forwarded-for" -> <<"1.1.1.1", "2.2.2.2">>
                       [] h = "x-real-ip" -> "3.3.3.3"
                       [] h = "x-user-id" -> "u1"
                       [] h = "x-uid" -> "u2"]] :
        ra \in {"", "4.4.4.4"},
        hs \in SUBSET {"x-forwarded-for", "x-real-ip", "x-user-id", "x-uid"}}

\* quick-test.js:10-15, 26-28 and PRODUCTION_DEPLOYMENT_GUIDE.md:416-425
EngineOptions ==
    {[dbUrl |-> "http://localhost:3002/audit"],
     [dbUrl |-> "http://localhost:3002/audit", userIdHeader |-> "x-uid"],
     [userIdHeader |-> "x-user-id", enableGeo |-> TRUE]}

InitEngine ==
    /\ InitNode
    /\ bound = [inst |-> 0, tasks |-> 0, reqs |-> EngineReqs]

NextEngine ==
    \/ \E o \in EngineOptions : createAuditServer(o)
    \/ \E w \in Wires : requestEnters("express", w)
    \/ \E k \in 1 .. EngineReqs + 1 :
          responseCompletes(k, [kind |-> "answers", statusCode |-> 200], TRUE)
    \/ serverTrack(ManualWire, ManualData)

SpecEngine == InitEngine /\ [][NextEngine]_vars

(***************************************************************************)
(* The server middleware.                                                  *)
(***************************************************************************)
\* The positions in server.events of the events of request k.
EventsOf(k) == {j \in 1 .. Len(server.events) : server.events[j].req = k}

\* d is x milliseconds in seconds, rounded as Math.round does.
RoundedSeconds(d, x) == 1000 * d - 500 <= x /\ x < 1000 * d + 500

\* C23: a request has no event while its handler runs and exactly one once
\* its response has completed; that event carries the status code the
\* response ended with (the error status when the handler threw) and the
\* seconds elapsed between request entry and completion, never negative.
C23_OneEventPerRequest ==
    \A k \in 1 .. Len(server.reqs) :
        LET req == server.reqs[k]
        IN  IF req.phase = "handling"
              THEN EventsOf(k) = {}
              ELSE /\ Cardinality(EventsOf(k)) = 1
                   /\ \A j \in EventsOf(k) :
                        LET ev == server.events[j]
                        IN  /\ ev.statusCode = req.plan[1].statusCode
                            /\ ev.statusCode = req.response
                            /\ IF ev.at < req.startTime
                                 THEN ev.duration = 0
                                 ELSE RoundedSeconds(ev.duration,
                                                     ev.at - req.startTime)

\* A handler that threw 1.4 s after entry: one event, status 500, duration 1.
C23_Witness ==
    \E k \in 1 .. Len(server.reqs) :
        /\ server.reqs[k].phase = "completed"
        /\ server.reqs[k].plan[1].kind = "throws"
        /\ \E j \in EventsOf(k) :
             /\ server.events[j].statusCode = 500
             /\ server.events[j].duration = 1

\* C24: whatever happens to the audit (the lookup fails, the sink is
\* unreachable, times out or answers a non-2xx status), nothing is raised
\* into the host, a request whose response has completed has the status its
\* handler produced, completion does not wait for the delivery, and every
\* dropped event has its failure reported through onError.
C24_AuditFailureInvisibleToHost ==
    /\ "threw" \notin DOMAIN lastCall
    /\ \A k \in 1 .. Len(server.reqs) :
         LET req == server.reqs[k]
         IN  /\ req.phase = "completed" =>
                  /\ req.response = req.plan[1].statusCode
                  /\ req.sink \in {"pending", "stored", "dropped"}
             /\ req.sink = "dropped" =>
                  [req |-> k, err |-> "DeliveryFailure"] \in server.errors
    /\ \A e \in server.errors :
         /\ e.err \in {"EnrichmentFailure", "DeliveryFailure"}
         /\ server.reqs[e.req].phase = "completed"

\* A request answered 200 whose lookup failed and whose event was dropped:
\* both failures are in onError's reports.
C24_Witness ==
    \E k \in 1 .. Len(server.reqs) :
        /\ server.reqs[k].phase = "completed"
        /\ server.reqs[k].response = 200
        /\ server.reqs[k].sink = "dropped"
        /\ [req |-> k, err |-> "EnrichmentFailure"] \in server.errors
        /\ [req |-> k, err |-> "DeliveryFailure"] \in server.errors

\* The fields of a server event that describe the request and its response.
EventContent(ev) ==
    [f \in {"userId", "route", "method", "statusCode", "duration", "ip",
            "city", "region", "country", "latitude", "longitude"} |-> ev[f]]

\* The request as it came in and the response as it went out.
Exchange(req, ev) ==
    [method |-> req.method, url |-> req.url, headers |-> req.headers,
     remoteAddress |-> req.remoteAddress, startTime |-> req.startTime,
     plan |-> req.plan, at |-> ev.at]

\* C25: two requests that came in alike and were answered alike, each through
\* any of the Express, Fastify and Koa adapters, have events with the same
\* userId, route, method, statusCode, duration and geo fields.
C25_AdaptersAgree ==
    \A j1, j2 \in 1 .. Len(server.events) :
        LET e1 == server.events[j1]
            e2 == server.events[j2]
        IN  Exchange(server.reqs[e1.req], e1) = Exchange(server.reqs[e2.req], e2)
                => EventContent(e1) = EventContent(e2)

\* One throwing request through Express and one through Koa, entered and
\* completed at the same instants: both events say 500.
C25_Witness ==
    /\ Len(server.events) = 2
    /\ LET e1 == server.events[1]
           e2 == server.events[2]
       IN  /\ server.reqs[e1.req].adapter = "express"
           /\ server.reqs[e2.req].adapter = "koa"
           /\ Exchange(server.reqs[e1.req], e1) = Exchange(server.reqs[e2.req], e2)
           /\ server.reqs[e1.req].plan[1].kind = "throws"
           /\ e1.statusCode = 500 /\ e2.statusCode = 500
           /\ e1.duration = 1

(***************************************************************************)
(* The fields the server takes from the request.                           *)
(***************************************************************************)
\* The events the middleware built, each with the request it describes.
RequestEvents ==
    {[ev |-> server.events[j], req |-> server.reqs[server.events[j].req]] :
        j \in {i \in 1 .. Len(server.events) : server.events[i].req # 0}}

\* C26: the ip of a server event is the first hop of the request's
\* forwarded-for header when the request has one; otherwise its real-ip
\* header; otherwise the remote address of its connection; otherwise
\* "unknown".
C26_IpPrecedence ==
    \A x \in RequestEvents :
        LET h == x.req.headers
            Has(name) == name \in DOMAIN h
        IN  /\ Has("x-forwarded-for") => x.ev.ip = h["x-forwarded-for"][1]
            /\ ~Has("x-forwarded-for") /\ Has("x-real-ip")
                  => x.ev.ip = h["x-real-ip"]
            /\ ~Has("x-forwarded-for") /\ ~Has("x-real-ip")
                  => x.ev.ip = IF x.req.remoteAddress # ""
                                 THEN x.req.remoteAddress ELSE "unknown"

\* A request with both headers and a remote address: the event has the first
\* hop, not the last one, the real-ip header or the peer.
C26_Witness ==
    \E x \in RequestEvents :
        /\ {"x-forwarded-for", "x-real-ip"} \subseteq DOMAIN x.req.headers
        /\ x.req.headers["x-forwarded-for"] = <<"1.1.1.1", "2.2.2.2">>
        /\ x.req.remoteAddress = "4.4.4.4"
        /\ x.ev.ip = "1.1.1.1"

\* C27: the userId of a server event is the value of the user-id header of
\* its request, the header being the one the engine was configured with and
\* x-user-id when it was configured with none; "anonymous" when the request
\* has no such header.
C27_UserIdFromHeader ==
    \A x \in RequestEvents :
        LET cfg == server.engine[1]
            name == IF "userIdHeader" \in cfg.given
                      THEN cfg.userIdHeader ELSE "x-user-id"
        IN  x.ev.userId = IF name \in DOMAIN x.req.headers
                            THEN x.req.headers[name] ELSE "anonymous"

\* An engine configured with x-uid and a request that carries x-user-id
\* alone: the event is anonymous.
C27_Witness ==
    \E x \in RequestEvents :
        /\ server.engine[1].userIdHeader = "x-uid"
        /\ "x-user-id" \in DOMAIN x.req.headers
        /\ "x-uid" \notin DOMAIN x.req.headers
        /\ x.ev.userId = "anonymous"

\* C28: a construction without dbUrl throws and leaves no engine; a
\* construction with dbUrl, even with nothing else, returns an engine; and
\* neither the engine's middleware nor its track throws when invoked.
C28_DbUrlRequired ==
    [][/\ CallStep("createAuditServer") =>
             /\ "dbUrl" \notin lastCall'.given <=> "threw" \in DOMAIN lastCall'
             /\ "dbUrl" \notin lastCall'.given => server'.engine = <<>>
             /\ "dbUrl" \in lastCall'.given =>
                   /\ server'.engine # <<>>
                   /\ server'.engine[1].dbUrl # ""
       /\ CallStep("middleware") \/ CallStep("serverTrack") =>
             /\ "threw" \notin DOMAIN lastCall'
             /\ server.engine # <<>>]_vars

\* An engine made from dbUrl alone whose middleware took a request and whose
\* track was called: both events are there.
C28_Witness ==
    /\ server.engine # <<>>
    /\ server.engine[1].given = {"dbUrl"}
    /\ lastCall = Call("serverTrack", 0)
    /\ \E j \in 1 .. Len(server.events) : server.events[j].req = 1
    /\ \E j \in 1 .. Len(server.events) :
          /\ server.events[j].req = 0
          /\ server.events[j].userId = "test-user"
          /\ server.events[j].route = "/test"

(***************************************************************************)
(* The patched history primitives.                                         *)
(***************************************************************************)
HistoryTasks == 2      \* track() calls in SpecHistory

\* The URLs the page passes to pushState and replaceState: paths of the
\* page's origin and a URL the browser refuses.
PageUrls == Routes \cup {CrossOrigin}

InitHistory ==
    /\ InitPage
    /\ now = 0
    /\ location = "/a"
    /\ bound = [inst |-> 2, tasks |-> HistoryTasks]

NextHistory ==
    \/ createAuditClient(DefaultConfig)
    \/ \E i \in 1 .. 2 : cleanup(i)
    \/ \E r \in PageUrls : pushState(r)
    \/ \E r \in PageUrls : replaceState(r)

SpecHistory == InitHistory /\ [][NextHistory]_vars

\* C29: a call of pushState or replaceState that the browser's primitive
\* accepts returns the primitive's result, and the listeners of an intact
\* instance ran after the primitive had changed the location (the instance's
\* current route is the new location); a call the primitive throws on throws
\* to the caller, and no listener ran: no event, no change of any instance.
C29_OriginalThenDispatch ==
    [][CallStep("navigate") =>
          IF lastCall'.url = CrossOrigin
            THEN /\ "threw" \in DOMAIN lastCall'
                 /\ location' = location
                 /\ Tracked([instances |-> instances', localData |-> localData',
                             tasks |-> tasks', errors |-> errors'])
                       = Tracked(World)
            ELSE /\ "threw" \notin DOMAIN lastCall'
                 /\ lastCall'.returned = NativeResult
                 /\ location' = lastCall'.url
                 /\ \A i \in Handles : Intact(i) =>
                       /\ instances'[i].currentRoute = location'
                       /\ \A k \in NewTasks :
                             tasks'[k].activity.route = instances[i].currentRoute]_vars

\* An intact instance that has tracked a navigation, and a call that has
\* just thrown.
C29_Witness ==
    /\ lastCall.op = "navigate"
    /\ "threw" \in DOMAIN lastCall
    /\ \E i \in Handles :
          /\ Intact(i)
          /\ \E k \in 1 .. Len(tasks) : tasks[k].inst = i /\ tasks[k].kind = "nav"

\* C30: after any creations and cleanups each history primitive is the
\* browser's own or one wrapper directly around the browser's own, made by
\* one of the instances; so a call runs at most one dispatch, and each
\* listening instance tracks at most one event for it.
C30_SingleWrapper ==
    \A m \in {"pushState", "replaceState"} :
        /\ \/ history[m] = Native
           \/ \E i \in Handles : history[m] = Wrapper(Native, i)
        /\ \A i \in Handles : instances[i].originalHistoryMethods[m] = Native
        /\ \A r \in Routes :
              LET event == IF m = "pushState" THEN "pushstate"
                           ELSE "replacestate"
              IN  Len(callHistoryMethod(World, history[m], event, r).tasks)
                     <= Len(tasks) + Cardinality(Listening)

\* Three creations with cleanups in between, the second instance's listeners
\* still registered: the primitives are the third instance's single wrappers.
C30_Witness ==
    /\ Len(instances) = 3
    /\ 2 \in Listening
    /\ Intact(3)
    /\ history.pushState = Wrapper(Native, 3)
    /\ lastCall.op = "create"

(***************************************************************************)
(* Teardown, local storage and manual tracking.                            *)
(***************************************************************************)
\* C31: an instance emits no initial and no navigation event once its
\* cleanup has returned, also when cleanup came before the deferred initial
\* event.
C31_NoEventAfterCleanup ==
    [][\A k \in NewTasks :
          tasks'[k].kind \in {"init", "nav"} => Active(tasks'[k].inst)]_vars

StoreTasks == 3        \* track() invocations in SpecStore

\* index.js:24  entries an earlier page load left under the storage key, the
\* j-th oldest first; the code never leaves more than KeepLast of them.
PriorEntry(j) ==
    [userId |-> "anonymous", route |-> "/earlier", duration |-> j,
     timestamp |-> 0, sessionId |-> 0] @@ getUserInfo

PriorData(n) == [j \in 1 .. n |-> PriorEntry(j)]

PriorLengths == {KeepLast - 2, KeepLast - 1, KeepLast}

\* index.js:65-73  local only (the defaults), local and both sinks, and both
\* sinks without the local list.
StoreConfigs ==
    {DefaultConfig, EnvConfig, [EnvConfig EXCEPT !.enableLocalStorage = FALSE]}

\* A page whose storage already holds nearly KeepLast entries and accepts or
\* refuses writes.
InitStore ==
    /\ isBrowser = TRUE
    /\ storageWorks \in BOOLEAN
    /\ userInfo = "ok"
    /\ nodeEnv = "production"
    /\ history = [pushState |-> Native, replaceState |-> Native]
    /\ windowListeners = <<>>
    /\ globalAuditInstance = NoInstance
    /\ instances = <<>>
    /\ uuidCalls = 0
    /\ timers = {}
    /\ \E n \in PriorLengths :
          /\ localData = PriorData(n)
          /\ bound = [inst |-> 1, tasks |-> StoreTasks, prior |-> n]
    /\ tasks = <<>>
    /\ errors = {}
    /\ lastCall = Call("load", NoInstance)
    /\ noopTracker = FALSE
    /\ server = NoServer
    /\ now = 0
    /\ location = "/a"

NextStore ==
    \/ \E cfg \in StoreConfigs : createAuditClient(cfg)
    \/ \E r \in Routes : pushState(r)
    \/ initialTimer(1)
    \/ \E r \in ManualRoutes, d \in ManualDurations : manualTrack(1, r, d)
    \/ clearLocalData(1)

SpecStore == InitStore /\ [][NextStore]_vars

\* The events written to the storage key so far, oldest first: the entries
\* found at load, then the event of every track() call whose write succeeded.
SavedEvents ==
    LET saved == SelectSeq(tasks, LAMBDA t : t.saved = <<TRUE>>)
    IN  PriorData(bound.prior) \o [k \in 1 .. Len(saved) |-> saved[k].activity]

\* C32: the stored list has at most 100 entries and is always the most
\* recent of the events written so far, in the order they were written;
\* every step that is not clearLocalData leaves it as the last min(n, 100) of
\* the n entries made of the list before and the events the step wrote, so
\* that after any sequence of saves it is the last min(n, 100) events saved.
C32_LocalListKeepsLastHundred ==
    /\ [](LET events == SavedEvents
              n == Len(events)
              m == Len(localData)
          IN  /\ m <= 100 /\ m <= n
              /\ localData = SubSeq(events, n - m + 1, n))
    /\ [][IF CallStep("clearLocalData") THEN localData' = <<>>
          ELSE LET written == [k \in 1 .. Len(SelectSeq(tasks', LAMBDA t : t.saved = <<TRUE>>))
                                        - Len(SelectSeq(tasks, LAMBDA t : t.saved = <<TRUE>>))
                                 |-> tasks'[Len(tasks')].activity]
                   all == localData \o written
                   n == Len(all)
                   m == IF n < 100 THEN n ELSE 100
               IN  localData' = SubSeq(all, n - m + 1, n)]_vars

\* 99 entries at load and three events saved: the two oldest entries are
\* gone and the newest event is last.
C32_Witness ==
    /\ bound.prior = 99
    /\ Len(SavedEvents) = 102
    /\ Len(localData) = 100
    /\ localData[1] = PriorEntry(3)
    /\ localData[100] = tasks[3].activity
    /\ localData[98] = tasks[1].activity

LocalTasks == 2        \* track() invocations in SpecLocal

\* index.js:65-73, 551-562  local only although both URLs are given, and
\* local with both sinks synchronised.
LocalConfigs ==
    {[DefaultConfig EXCEPT !.baseUrl = "http://x/audit",
                           !.clientDbUrl = "http://db/audit"],
     EnvConfig}

InitLocal ==
    /\ InitPage
    /\ now = 0
    /\ location = "/a"
    /\ bound = [inst |-> 2, tasks |-> LocalTasks]

NextLocal ==
    \/ \E cfg \in LocalConfigs : createAuditClient(cfg)
    \/ cleanup(1)
    \/ \E r \in DeliveryRoutes : pushState(r)
    \* index.js:138  callbacks queued with the same delay run in queueing order
    \/ \E i \in {1, 2} : (\A j \in timers : i <= j) /\ initialTimer(i)
    \/ clearLocalData(2)
    \/ \E k \in 1 .. LocalTasks, o \in {"ok", "timeout"} : settle(k, o)

SpecLocal == InitLocal /\ [][NextLocal]_vars

\* C33: with enableLocalStorage on, the step of track() that issues the
\* first request of an event has already put the event at the end of the
\* stored list, and no outcome of a delivery changes the list (only
\* clearLocalData empties it); with enableServerSync off an event has no request, whatever URLs
\* were configured, and its track() call has resolved at once.
C33_LocalFirst ==
    [][/\ \A k \in NewTasks :
             LET t == tasks'[k]
                 cfg == instances[t.inst].cfg
             IN  /\ cfg.enableLocalStorage =>
                       /\ localData' = Append(localData, t.activity)
                       /\ t.saved = <<TRUE>>
                 /\ ~cfg.enableServerSync =>
                       t.requests = <<>> /\ t.pc = "resolved"
       /\ NewTasks = {} =>
             localData' = IF CallStep("clearLocalData") THEN <<>> ELSE localData
       /\ \A k \in 1 .. Len(tasks) :
             ~instances[tasks[k].inst].cfg.enableServerSync =>
                 tasks'[k] = tasks[k]]_vars

\* A client that is local only although both URLs were given has saved an
\* event without sending it; its successor, with server sync, has saved the
\* next event while that event's first POST is still unanswered.
C33_Witness ==
    /\ Len(tasks) = 2
    /\ tasks[1].inst = 1 /\ tasks[2].inst = 2
    /\ instances[1].cfg.baseUrl # "" /\ ~instances[1].cfg.enableServerSync
    /\ tasks[1].requests = <<>>
    /\ tasks[2].pc = "primary" /\ Len(tasks[2].requests) = 1
    /\ localData = <<tasks[1].activity, tasks[2].activity>>

\* C34: where the storage refuses writes, saveLocalAuditData returns false
\* for every event, no track() call changes the stored list (it stays as it
\* was found until clearLocalData removes it), no track() call is rejected,
\* and an event of a client with server sync still has its POST to the
\* primary sink issued.
C34_FailedSaveIsHarmless ==
    /\ [](~storageWorks =>
            /\ localData \in {PriorData(bound.prior), <<>>}
            /\ \A k \in 1 .. Len(tasks) :
                  LET t == tasks[k]
                      cfg == instances[t.inst].cfg
                  IN  /\ cfg.enableLocalStorage => t.saved = <<FALSE>>
                      /\ t.built /\ t.pc # "rejected"
                      /\ cfg.enableServerSync =>
                            /\ Len(t.requests) >= 1
                            /\ t.requests[1] = Request(cfg, "primary", t.activity)
                      /\ ~cfg.enableServerSync => t.result = <<t.activity>>)
    /\ [][(~storageWorks /\ ~CallStep("clearLocalData")) =>
             localData' = localData]_vars

\* Storage that refuses writes, a client with local storage and both sinks,
\* and three events: none was stored, each has its POST in flight.
C34_Witness ==
    /\ ~storageWorks
    /\ Len(tasks) = 3
    /\ instances[1].cfg = EnvConfig
    /\ \A k \in 1 .. 3 : tasks[k].saved = <<FALSE>> /\ tasks[k].pc = "primary"
    /\ localData = PriorData(bound.prior)

\* C35: a createAuditClient call made while an instance is active changes
\* nothing but returns that instance, whatever options it is given; the
\* options and the session of an instance never change; and every event
\* carries the userId and sessionId of its instance's own creation and goes
\* to the sinks given then.
C35_SecondCreateChangesNothing ==
    [][/\ (CallStep("create") /\ \E i \in Handles : Active(i)) =>
             /\ lastCall'.h = globalAuditInstance
             /\ UNCHANGED <<instances, history, windowListeners, timers,
                            globalAuditInstance, uuidCalls, localData, tasks,
                            errors, location>>
       /\ \A i \in Handles :
             /\ instances'[i].cfg = instances[i].cfg
             /\ instances'[i].sessionId = instances[i].sessionId
       /\ \A k \in NewTasks :
             LET t == tasks'[k]
                 c == instances[t.inst]
             IN  /\ t.activity.userId = c.cfg.userId
                 /\ t.activity.sessionId = c.sessionId
                 /\ Len(t.requests) = (IF primaryWanted(c.cfg) THEN 1 ELSE 0)
                 /\ \A n \in 1 .. Len(t.requests) :
                       t.requests[n] = Request(c.cfg, "primary", t.activity)
                 /\ c.cfg.enableLocalStorage <=>
                       \E n \in 1 .. Len(localData') : localData'[n] = t.activity]_vars

\* C36: cleanup emits, saves and reports nothing; a navigation adds one
\* event, for the route being left, while the instance is active and none
\* afterwards; the deferred callback adds the one initial event. So after n
\* navigations and a cleanup there are n + 1 automatic events, and the time
\* spent on the last route is in none of them.
C36_CleanupEmitsNothing ==
    [][/\ CallStep("cleanup") =>
             tasks' = tasks /\ localData' = localData /\ errors' = errors
       /\ CallStep("navigate") =>
             IF \E i \in Handles : Active(i)
               THEN /\ Len(tasks') = Len(tasks) + 1
                    /\ \A k \in NewTasks :
                          /\ tasks'[k].kind = "nav"
                          /\ tasks'[k].activity.route =
                                instances[tasks'[k].inst].currentRoute
               ELSE tasks' = tasks
       /\ CallStep("timer") =>
             /\ Len(tasks') = Len(tasks) + 1
             /\ tasks'[Len(tasks')].kind = "init"
       /\ CallStep("create") \/ CallStep("response") =>
             Len(tasks') = Len(tasks)]_vars

\* /a -> /b -> /a and then cleanup: the initial event and two navigation
\* events, the last of them for /b; the final stay on /a has no event.
C36_Witness ==
    /\ lastCall.op = "cleanup"
    /\ Len(tasks) = 3
    /\ tasks[1].kind = "init" /\ tasks[2].kind = "nav" /\ tasks[3].kind = "nav"
    /\ tasks[2].activity.route = "/a"
    /\ tasks[3].activity.route = "/b"
    /\ instances[1].currentRoute = "/a"

\* Navigation interleaved with manual track() calls of several routes and
\* durations, while time passes.
ManualTasks == 3
ManualArgs == {[route |-> "/m", duration |-> 5], [route |-> "/b", duration |-> 0]}

InitManual ==
    /\ InitPage
    /\ now = 0
    /\ location = "/a"
    /\ bound = [inst |-> 1, tasks |-> ManualTasks]

NextManual ==
    \/ createAuditClient(DefaultConfig)
    \/ cleanup(1)
    \/ \E r \in Routes : pushState(r)
    \/ \E a \in ManualArgs : manualTrack(1, a.route, a.duration)
    \/ \E t \in Instants : t > now /\ Tick(t)

SpecManual == InitManual /\ [][NextManual]_vars

\* The navigation events among the first k tasks, as task indices.
NavEventsBefore(ts, k) == {j \in 1 .. k - 1 : ts[j].kind = "nav"}

\* C37: a manual track() changes neither the current route, the route start
\* instant nor the sessionId (nor the page location); its activity, which is
\* what the call returns, carries the route and duration passed in; and every
\* navigation event after the first measures from the previous navigation
\* event, whatever manual calls came between.
C37_ManualTrackLeavesNavigation ==
    [][/\ CallStep("track") =>
             /\ instances' = instances
             /\ location' = location
             /\ Len(tasks') = Len(tasks) + 1
             /\ \A k \in NewTasks :
                   /\ tasks'[k].kind = "manual"
                   /\ tasks'[k].activity.route = lastCall'.route
                   /\ tasks'[k].activity.duration = lastCall'.duration
                   /\ tasks'[k].activity.sessionId = instances[lastCall'.h].sessionId
                   /\ tasks'[k].result = <<tasks'[k].activity>>
       /\ \A k \in 1 .. Len(tasks') :
             (tasks'[k].kind = "nav" /\ NavEventsBefore(tasks', k) # {}) =>
                LET p == CHOOSE j \in NavEventsBefore(tasks', k) :
                            \A q \in NavEventsBefore(tasks', k) : q <= j
                IN  tasks'[k].activity.duration =
                       MathRound(tasks'[k].activity.timestamp
                                    - tasks'[p].activity.timestamp, MsPerSecond)]_vars

\* A navigation at 0, a manual track of /b at 1000 and a navigation at 1000:
\* the second navigation event is for /b, the route entered at 0, with one
\* second measured from then.
C37_Witness ==
    /\ Len(tasks) = 3
    /\ tasks[1].kind = "nav" /\ tasks[1].activity.timestamp = 0
    /\ tasks[2].kind = "manual" /\ tasks[2].activity.timestamp = 1000
    /\ tasks[2].activity.route = "/b" /\ tasks[2].activity.duration = 0
    /\ tasks[3].kind = "nav" /\ tasks[3].activity.timestamp = 1000
    /\ tasks[3].activity.route = "/b" /\ tasks[3].activity.duration = 1
    /\ instances[1].currentRoute = "/a"

\* C38: within one track call the sinks are used in sequence: a POST to the
\* secondary sink exists only once the primary attempt of the same event has
\* ended (or was never wanted), and it follows the primary POST in the order
\* of requests; while the primary POST is in flight it is the event's only
\* request. Every event of a client with a primary sink has its primary POST
\* issued from the step that emitted it, so primary POSTs are in emission
\* order whatever the state of earlier deliveries.
C38_SinksInSequence ==
    \A k \in 1 .. Len(tasks) :
       LET t == tasks[k]
           cfg == instances[t.inst].cfg
           sinks == [j \in 1 .. Len(t.requests) |-> t.requests[j].sink]
       IN  /\ t.secondaryPosts > 0 =>
                 IF primaryWanted(cfg) THEN t.primary \in {"ok", "failed"}
                 ELSE t.primary = "none"
           /\ t.primary = "pending" => sinks = <<"primary">>
           /\ sinks \in {<<>>, <<"primary">>, <<"secondary">>,
                         <<"primary", "secondary">>}
           /\ primaryWanted(cfg) =>
                 /\ t.requests # <<>>
                 /\ t.requests[1] = Request(cfg, "primary", t.activity)
           /\ \A j \in 1 .. Len(t.requests) : t.requests[j].body = t.activity

\* The first event's primary POST has failed and its secondary POST is in
\* flight; the second event's primary POST was issued meanwhile.
C38_Witness ==
    /\ Len(tasks) = 2
    /\ tasks[1].primary = "failed" /\ tasks[1].pc = "secondary"
    /\ Len(tasks[1].requests) = 2 /\ tasks[1].requests[2].sink = "secondary"
    /\ tasks[2].pc = "primary" /\ tasks[2].primary = "pending"
    /\ Len(tasks[2].requests) = 1
====
